---- MODULE Spec2Model ----
(***************************************************************************)
(* A model of the offline audio engine of OneSound                         *)
(* (src/utils/audioHelpers.ts): the WAV codec (bufferToWav, createWavBlob, *)
(* decodePCM), the remaster renderer (processAudio), the chord lookup      *)
(* (getChordFrequencies), the snippet extractor (getAudioSnippet), the     *)
(* mixdown (mixAudioTracks) and the composer                               *)
(* (generateProceduralBackingTrack); and of the component that drives the  *)
(* renderer (src/components/RemasterTrack.tsx) and of the player hook      *)
(* (src/hooks/useAudioPlayer.ts).                                          *)
(*                                                                         *)
(* Samples are IEEE floats in the source.  The model keeps a sample as the *)
(* integer numerator n of the rational n / SampleDen, SampleDen = 65536,   *)
(* i.e. in steps of half an int16 unit.  Every such value with             *)
(* |n| < 2^24 is exactly representable as a float32, and its products with *)
(* 32767 and 32768 are exact in double precision, so the integer           *)
(* arithmetic below is exactly the arithmetic of the source on these       *)
(* inputs.                                                                 *)
(***************************************************************************)
EXTENDS Integers, Sequences, FiniteSets, TLC

VARIABLES
    \* ---- WAV codec ----
    wpc,        \* "idle" | "encoded" | "blob" | "decoded"
    abuffer,    \* the AudioBuffer handed to bufferToWav
    pcmData,    \* the Uint8Array handed to createWavBlob / decodePCM
    pcmRate,    \* the sampleRate argument of createWavBlob
    wav,        \* the bytes of the Blob produced (a function 0..n-1 -> 0..255)
    stores,     \* history of the sample loop of bufferToWav: one record per view.setInt16
    float32Data \* the Float32Array returned by decodePCM (numerators over SampleDen)

wavVars == <<wpc, abuffer, pcmData, pcmRate, wav, stores, float32Data>>

VARIABLES
    \* ---- processAudio(file, config, onProgress) ----
    rpc,         \* "off" | "start" | "decoding" | "rendering" | "resolved" | "rejected"
    file,        \* what the File decodes to: [decodable, length, numberOfChannels, sampleRate]
    config,      \* the AudioFilterConfig; a missing field is Absent
    offlineCtx,  \* the OfflineAudioContext: [numberOfChannels, length, sampleRate], or NoCtx
    graph,       \* the node parameters and connections set up, or NoGraph
    interval,    \* TRUE while the progressInterval timer is set
    progressLog, \* the values passed to onProgress, in call order
    ticks,       \* timer callbacks run so far (bounded by MaxTicks)
    resultWav    \* the bytes of the Blob the promise resolved with

renderVars == <<rpc, file, config, offlineCtx, graph, interval, progressLog, ticks,
                resultWav>>

VARIABLES
    \* ---- getChordFrequencies(chordName) ----
    cpc,         \* "off" | "call" | "returned"
    chordName,   \* the argument
    chordResult  \* the value returned: [kind, ...]

chordVars == <<cpc, chordName, chordResult>>

VARIABLES
    \* ---- getAudioSnippet(file, durationSeconds) ----
    spc,         \* "off" | "start" | "decoding" | "rendering" | "reading" | "resolved" | "rejected"
    snipFile,    \* what the File decodes to, as file above
    durationMs,  \* durationSeconds, in milliseconds
    snipCtx,     \* the OfflineAudioContext, or NoCtx
    snipWav      \* the bytes of the WAV the returned base64 string stands for

snipVars == <<spc, snipFile, durationMs, snipCtx, snipWav>>

VARIABLES
    \* ---- mixAudioTracks(vocalBufferBase64, backingTrackBuffer) ----
    mpc,         \* "off" | "call" | "rendering" | "resolved" | "rejected"
    vocalBytes,  \* the bytes vocalBufferBase64 stands for
    backingTrackBuffer, \* [numberOfChannels, length, sampleRate]
    mixCtx,      \* the OfflineAudioContext, or NoCtx
    mixSources,  \* the buffer sources created so far, with their start calls
    mixWav       \* the bytes of the Blob the promise resolved with

mixVars == <<mpc, vocalBytes, backingTrackBuffer, mixCtx, mixSources, mixWav>>

VARIABLES
    \* ---- generateProceduralBackingTrack(bpm, chordProgression, genre, totalDuration) ----
    gpc,         \* "off" | "call" | "rhythm" | "harmony" | "rendering" | "resolved" | "rejected"
    bpm,
    chordProgression,
    genre,
    totalDuration,
    composeCtx,  \* the OfflineAudioContext, or NoCtx
    loopStep,    \* how many times the running for loop has added its interval to time
    chordIndex,
    scheduled,   \* what the last loop iteration scheduled
    composeError, \* "none", or what made the promise reject
    backing      \* the shape of the AudioBuffer the promise resolved with, or NoCtx

composeVars == <<gpc, bpm, chordProgression, genre, totalDuration, composeCtx, loopStep,
                 chordIndex, scheduled, composeError, backing>>

VARIABLES
    \* ---- the RemasterTrack component (src/components/RemasterTrack.tsx) ----
    upc,          \* "off" | "mounted"
    uiFile,       \* the file state: NoUiFile (null) or a file's number
    uiProcessing, \* the processing state
    uiResultBlob, \* the resultBlob state: NoBlob (null) or [render, file]
    uiResultUrl,  \* the resultUrl state: the blob the object URL names, or NoBlob
    uiRenders,    \* the triggerRender calls in flight:
                  \* [id, file, config, origin, settings, stage]
    uiEqSettings, \* the eqSettings state (its saturation)
    uiCommits,    \* the armed timers of the Drive control, in the order they fire:
                  \* what the commitManualChanges each one calls closes over
    uiAnalyses,   \* the runAnalysis calls in flight
    uiRequested,  \* how many triggerRender calls got past line 294
    uiCancelled   \* the renders that were in flight when Reset Project was clicked
                  \* or a new file was selected (the component keeps no such record)

uiVars == <<upc, uiFile, uiProcessing, uiResultBlob, uiResultUrl, uiRenders,
            uiEqSettings, uiCommits, uiAnalyses, uiRequested, uiCancelled>>

VARIABLES
    \* ---- the useAudioPlayer hook (src/hooks/useAudioPlayer.ts) ----
    ypc,            \* "off" | "mounted"
    currentTrack,   \* the currentTrack argument: NoTrack (null) or a track's number
    isPlaying,      \* the isPlaying state
    duration,       \* the duration state
    currentTime,    \* the currentTime state: the elapsed time shown
    audioBufferRef, \* the track whose audio audioBufferRef.current holds, or NoTrack
    sourceNodeRef,  \* the index in sources of sourceNodeRef.current, or 0 (null)
    startTimeRef,   \* startTimeRef.current
    pauseTimeRef,   \* pauseTimeRef.current
    sources,        \* the buffer source nodes started so far:
                    \* [buffer, offset, startedAt, stopped, stoppedAt]
    loads,          \* the loadAudio calls awaiting fetch or decodeAudioData: [id, track]
    trackChanges,   \* how often currentTrack changed
    now             \* audioContext.currentTime

playerVars == <<ypc, currentTrack, isPlaying, duration, currentTime, audioBufferRef,
                sourceNodeRef, startTimeRef, pauseTimeRef, sources, loads, trackChanges,
                now>>

vars == <<wavVars, renderVars, chordVars, snipVars, mixVars, composeVars, uiVars,
          playerVars>>

\* What each component leaves alone.
nonWavVars ==
    <<renderVars, chordVars, snipVars, mixVars, composeVars, uiVars, playerVars>>
nonRenderVars ==
    <<wavVars, chordVars, snipVars, mixVars, composeVars, uiVars, playerVars>>
nonChordVars ==
    <<wavVars, renderVars, snipVars, mixVars, composeVars, uiVars, playerVars>>
nonSnipVars ==
    <<wavVars, renderVars, chordVars, mixVars, composeVars, uiVars, playerVars>>
nonMixVars ==
    <<wavVars, renderVars, chordVars, snipVars, composeVars, uiVars, playerVars>>
nonComposeVars ==
    <<wavVars, renderVars, chordVars, snipVars, mixVars, uiVars, playerVars>>
nonUiVars ==
    <<wavVars, renderVars, chordVars, snipVars, mixVars, composeVars, playerVars>>
nonPlayerVars ==
    <<wavVars, renderVars, chordVars, snipVars, mixVars, composeVars, uiVars>>

(***************************************************************************)
(* Bounds of the model.                                                    *)
(***************************************************************************)
MaxFrames == 46      \* frames of an input AudioBuffer: 1..MaxFrames
MaxChannels == 2     \* channels of an input AudioBuffer: 1..MaxChannels
MaxPcmSamples == 3   \* int16 samples of a raw PCM input: 0..MaxPcmSamples
MaxRenderFrames == 2 \* frames of a file given to processAudio: 0..MaxRenderFrames
MaxTicks == 2        \* progress-timer callbacks run during one processAudio call
MaxChordLen == 2     \* characters of a generated chord symbol: 0..MaxChordLen

(***************************************************************************)
(* Program constants.                                                      *)
(***************************************************************************)
NegScale == 32768    \* sample * 32768
PosScale == 32767    \* sample * 32767
HeaderSize == 44     \* abuffer.length * numOfChan * 2 + 44
DefaultSampleRate == 24000    \* createWavBlob's default sampleRate

SampleDen == 2 * NegScale     \* one sample unit of the model is 1 / 65536
One == SampleDen              \* the sample value 1.0
Half == SampleDen \div 2      \* the sample value 0.5

SampleRates == {8000, DefaultSampleRate, 44100}

(***************************************************************************)
(* Integer helpers.                                                        *)
(***************************************************************************)
Abs(x) == IF x < 0 THEN -x ELSE x
Max(a, b) == IF a >= b THEN a ELSE b
Min(a, b) == IF a <= b THEN a ELSE b

\* JavaScript's (a * b / d) | 0 for b, d > 0: truncation toward zero, computed
\* without leaving 32 bits:
\* a = q * d + r gives a * b / d = q * b + r * b / d.
MulTruncDiv(a, b, d) ==
    LET m == Abs(a)
        t == (m \div d) * b + ((m % d) * b) \div d
    IN  IF a >= 0 THEN t ELSE -t

\* Byte k (0 = least significant) of a non-negative integer.
ByteOf(x, k) == (x \div (256 ^ k)) % 256

\* DataView.setUint32(pos, data, true) / setUint16 / setInt16: little-endian bytes.
\* Every value written by the code is below 2^31, so the four low bytes are the
\* value modulo 2^32.
U32LE(x) == <<ByteOf(x, 0), ByteOf(x, 1), ByteOf(x, 2), ByteOf(x, 3)>>
U16LE(x) == <<ByteOf(x % 65536, 0), ByteOf(x % 65536, 1)>>
I16LE(v) == LET u == IF v >= 0 THEN v % 65536 ELSE (65536 - ((-v) % 65536)) % 65536
            IN  <<ByteOf(u, 0), ByteOf(u, 1)>>

\* The readers a WAV parser applies to the bytes.
GetU16(view, at) == view[at] + 256 * view[at + 1]
GetU32(view, at) == view[at] + 256 * view[at + 1] + 65536 * view[at + 2]
                    + 16777216 * view[at + 3]
GetI16(view, at) == LET u == GetU16(view, at)
                    IN  IF u >= 32768 THEN u - 65536 ELSE u

\* view with bytes written from offset at.
SetBytes(view, at, bytes) ==
    [i \in DOMAIN view |->
        IF i >= at /\ i < at + Len(bytes) THEN bytes[i - at + 1] ELSE view[i]]

\* new ArrayBuffer(n): n zero bytes.
ZeroBytes(n) == [i \in 0..(n - 1) |-> 0]

(***************************************************************************)
(* bufferToWav (src/utils/audioHelpers.ts:666-718).                        *)
(***************************************************************************)

\* lines 709-717: setUint16 / setUint32 write at pos and advance pos.
\* A header item is <<width, data>>; the state is [view, pos].
RECURSIVE WriteItems(_, _)
WriteItems(st, items) ==
    IF items = <<>> THEN st
    ELSE LET it == Head(items)
             bytes == IF it[1] = 4 THEN U32LE(it[2]) ELSE U16LE(it[2])
         IN  WriteItems([view |-> SetBytes(st.view, st.pos, bytes),
                         pos  |-> st.pos + it[1]],
                        Tail(items))

\* HeaderItems with the channel count left out of the byte rate and of the
\* block align (a header that is right for mono buffers only).
HeaderItemsBroken(ab, length) ==
    << <<4, 1179011410>>,                               \* "RIFF"
       <<4, length - 8>>,
       <<4, 1163280727>>,                               \* "WAVE"
       <<4, 544501094>>,                                \* "fmt "
       <<4, 16>>,
       <<2, 1>>,
       <<2, ab.numberOfChannels>>,
       <<4, ab.sampleRate>>,
       <<4, ab.sampleRate * 2>>,                        \* forgets numOfChan
       <<2, 2>>,                                        \* forgets numOfChan
       <<2, 16>>,
       <<4, 1635017060>> >>                             \* "data"

\* lines 678-691: the header fields up to the "data" tag, in writing order.
HeaderItems(ab, length) ==
    << <<4, 1179011410>>,                               \* 0x46464952 "RIFF"
       <<4, length - 8>>,                               \* file length - 8
       <<4, 1163280727>>,                               \* 0x45564157 "WAVE"
       <<4, 544501094>>,                                \* 0x20746d66 "fmt "
       <<4, 16>>,                                       \* length = 16
       <<2, 1>>,                                        \* PCM
       <<2, ab.numberOfChannels>>,
       <<4, ab.sampleRate>>,
       <<4, ab.sampleRate * 2 * ab.numberOfChannels>>,  \* avg. bytes/sec
       <<2, ab.numberOfChannels * 2>>,                  \* block-align
       <<2, 16>>,                                       \* 16-bit
       <<4, 1635017060>> >>                             \* 0x61746164 "data"

\* The sample as it is, had line 699 not clamped it.
Unclamped(s) == s

\* line 699: Math.max(-1, Math.min(1, s)).
Clamp(s) == Max(-One, Min(One, s))

\* line 700: (0.5 + sample < 0 ? sample * 32768 : sample * 32767) | 0,
\* on a clamped sample.
ScaleSample(sample) ==
    IF Half + sample < 0 THEN MulTruncDiv(sample, NegScale, SampleDen)
                         ELSE MulTruncDiv(sample, PosScale, SampleDen)

\* lines 698-703: the inner loop over the channels at frame pos.
\* st is [view, offset, stores].
RECURSIVE WriteFrame(_, _, _, _)
WriteFrame(st, ab, pos, i) ==
    IF i >= ab.numberOfChannels THEN st
    ELSE LET raw    == ab.channels[i][pos]
             sample == ScaleSample(Clamp(raw))
         IN  WriteFrame(
                 [view   |-> SetBytes(st.view, HeaderSize + st.offset, I16LE(sample)),
                  offset |-> st.offset + 2,
                  stores |-> Append(st.stores,
                                    [chan |-> i, frame |-> pos, raw |-> raw,
                                     value |-> sample, at |-> HeaderSize + st.offset])],
                 ab, pos, i + 1)

\* lines 697-705: while (pos < abuffer.length) { ...; pos++ }.
RECURSIVE WriteSamples(_, _, _)
WriteSamples(st, ab, pos) ==
    IF pos < ab.length
    THEN WriteSamples(WriteFrame(st, ab, pos, 0), ab, pos + 1)
    ELSE st

\* lines 666-707: the whole function; pos is the one cursor the header writers
\* advance and the sample loop then reads.
BufferToWav(ab) ==
    LET numOfChan == ab.numberOfChannels
        length == ab.length * numOfChan * 2 + HeaderSize
        h1 == WriteItems([view |-> ZeroBytes(length), pos |-> 0],
                         HeaderItems(ab, length))
        h2 == WriteItems(h1, << <<4, length - h1.pos - 4>> >>)   \* line 692
    IN  WriteSamples([view |-> h2.view, offset |-> 0, stores |-> <<>>], ab, h2.pos)

(***************************************************************************)
(* createWavBlob (src/utils/audioHelpers.ts:249-282).                      *)
(***************************************************************************)

\* lines 284-288: writeString writes the char codes of a four-letter tag.
TagBytes(tag) ==
    CASE tag = "RIFF" -> <<82, 73, 70, 70>>
      [] tag = "WAVE" -> <<87, 65, 86, 69>>
      [] tag = "fmt " -> <<102, 109, 116, 32>>
      [] tag = "data" -> <<100, 97, 116, 97>>

CreateWavBlob(data, sampleRate) ==
    LET numChannels == 1
        bitsPerSample == 16
        byteRate == sampleRate * numChannels * (bitsPerSample \div 8)
        blockAlign == numChannels * (bitsPerSample \div 8)
        dataSize == Len(data)
        v0 == ZeroBytes(HeaderSize + dataSize)
        v1 == SetBytes(v0, 0, TagBytes("RIFF"))
        v2 == SetBytes(v1, 4, U32LE(36 + dataSize))
        v3 == SetBytes(v2, 8, TagBytes("WAVE"))
        v4 == SetBytes(v3, 12, TagBytes("fmt "))
        v5 == SetBytes(v4, 16, U32LE(16))
        v6 == SetBytes(v5, 20, U16LE(1))
        v7 == SetBytes(v6, 22, U16LE(numChannels))
        v8 == SetBytes(v7, 24, U32LE(sampleRate))
        v9 == SetBytes(v8, 28, U32LE(byteRate))
        v10 == SetBytes(v9, 32, U16LE(blockAlign))
        v11 == SetBytes(v10, 34, U16LE(bitsPerSample))
        v12 == SetBytes(v11, 36, TagBytes("data"))
        v13 == SetBytes(v12, 40, U32LE(dataSize))
    IN  SetBytes(v13, HeaderSize, data)

(***************************************************************************)
(* decodePCM (src/utils/audioHelpers.ts:238-247), on the decoded bytes.    *)
(* new Int16Array(bytes.buffer) reads little-endian pairs; the result      *)
(* int16 / 32768 is the numerator 2 * int16 over SampleDen.                *)
(***************************************************************************)
\* decodePCM had it taken the bytes for a WAV file and skipped a 44-byte header.
DecodePCMAfterHeader(bytes) ==
    LET skipped == IF Len(bytes) > HeaderSize THEN HeaderSize ELSE Len(bytes)
        view == [i \in 0..(Len(bytes) - skipped - 1) |-> bytes[skipped + i + 1]]
    IN  [i \in 0..(((Len(bytes) - skipped) \div 2) - 1) |->
            GetI16(view, 2 * i) * (SampleDen \div NegScale)]

DecodePCM(bytes) ==
    LET view == [i \in 0..(Len(bytes) - 1) |-> bytes[i + 1]]
    IN  [i \in 0..((Len(bytes) \div 2) - 1) |->
            GetI16(view, 2 * i) * (SampleDen \div NegScale)]

(***************************************************************************)
(* Inputs of the codec.                                                    *)
(***************************************************************************)

\* Sample values (numerators over SampleDen) an input buffer is filled from:
\* zero, the smallest magnitudes, both sides of -0.5 and of the clamp limits,
\* and values outside [-1, 1].
SampleValues ==
    << 0, 1, -1, 2, -2, 3, -3, Half, -Half, -Half - 1, -Half - 2, -Half + 1,
       One - 2, One - 1, One, -One + 1, -One, One + 4464, -One - 4464,
       Half \div 2, -(Half \div 2) >>

\* The buffer with the given shape whose samples run through SampleValues in
\* interleaved order starting at phase: neighbouring frames differ.
PatternBuffer(numberOfChannels, length, sampleRate, phase) ==
    [numberOfChannels |-> numberOfChannels,
     length |-> length,
     sampleRate |-> sampleRate,
     channels |-> [c \in 0..(numberOfChannels - 1) |->
                    [p \in 0..(length - 1) |->
                        SampleValues[((p * numberOfChannels + c + phase)
                                      % Len(SampleValues)) + 1]]]]

\* An AudioBuffer has at least one frame and one channel.
Buffers ==
    {PatternBuffer(c, l, r, ph) :
        c \in 1..MaxChannels, l \in 1..MaxFrames, r \in SampleRates,
        ph \in 0..(Len(SampleValues) - 1)}

NoBuffer == [numberOfChannels |-> 0, length |-> 0, sampleRate |-> 0,
             channels |-> <<>>]

Int16Values == {-NegScale, -1, 0, 1, PosScale}

RECURSIVE SeqsUpTo(_, _)
SeqsUpTo(S, n) ==
    IF n = 0 THEN {<<>>}
    ELSE LET shorter == SeqsUpTo(S, n - 1)
         IN  shorter \cup {Append(q, x) : q \in shorter, x \in S}

RECURSIVE PcmBytes(_)
PcmBytes(vals) ==
    IF vals = <<>> THEN <<>> ELSE I16LE(Head(vals)) \o PcmBytes(Tail(vals))

\* Headerless little-endian int16 PCM of up to MaxPcmSamples samples (an even
\* number of bytes, as new Int16Array(bytes.buffer) requires).
PcmInputs == {PcmBytes(q) : q \in SeqsUpTo(Int16Values, MaxPcmSamples)}

(***************************************************************************)
(* The components not taking part in a specification rest in these states. *)
(***************************************************************************)
NoCtx == [numberOfChannels |-> 0, length |-> 0, sampleRate |-> 0]
NoGraph == [built |-> FALSE]
NoFile == [decodable |-> FALSE, length |-> 0, numberOfChannels |-> 0, sampleRate |-> 0,
           phase |-> 0]
NoConfig == [lowGain |-> <<>>, midGain |-> <<>>, highGain |-> <<>>,
             saturation |-> <<>>, mix |-> <<>>]

WavOff ==
    /\ wpc = "off"
    /\ abuffer = NoBuffer
    /\ pcmData = <<>>
    /\ pcmRate = DefaultSampleRate
    /\ wav = <<>>
    /\ stores = <<>>
    /\ float32Data = <<>>

RenderOff ==
    /\ rpc = "off"
    /\ file = NoFile
    /\ config = NoConfig
    /\ offlineCtx = NoCtx
    /\ graph = NoGraph
    /\ interval = FALSE
    /\ progressLog = <<>>
    /\ ticks = 0
    /\ resultWav = <<>>

NoResult == [kind |-> "none"]

ChordOff ==
    /\ cpc = "off"
    /\ chordName = ""
    /\ chordResult = NoResult

SnipOff ==
    /\ spc = "off"
    /\ snipFile = NoFile
    /\ durationMs = 0
    /\ snipCtx = NoCtx
    /\ snipWav = <<>>

MixOff ==
    /\ mpc = "off"
    /\ vocalBytes = <<>>
    /\ backingTrackBuffer = NoCtx
    /\ mixCtx = NoCtx
    /\ mixSources = {}
    /\ mixWav = <<>>

NothingScheduled == [kind |-> "none"]

ComposeOff ==
    /\ gpc = "off"
    /\ bpm = 0
    /\ chordProgression = <<>>
    /\ genre = ""
    /\ totalDuration = 0
    /\ composeCtx = NoCtx
    /\ loopStep = 0
    /\ chordIndex = 0
    /\ scheduled = NothingScheduled
    /\ composeError = "none"
    /\ backing = NoCtx

NoUiFile == 0
NoBlob == [render |-> 0, file |-> 0]

\* lines 157-163: the settings the console starts from (their saturation).
DefaultSettings == [saturation |-> FALSE]

UiOff ==
    /\ upc = "off"
    /\ uiFile = NoUiFile
    /\ uiProcessing = FALSE
    /\ uiResultBlob = NoBlob
    /\ uiResultUrl = NoBlob
    /\ uiRenders = {}
    /\ uiEqSettings = DefaultSettings
    /\ uiCommits = <<>>
    /\ uiAnalyses = 0
    /\ uiRequested = 0
    /\ uiCancelled = {}

NoTrack == 0

PlayerOff ==
    /\ ypc = "off"
    /\ currentTrack = NoTrack
    /\ isPlaying = FALSE
    /\ duration = 0
    /\ currentTime = 0
    /\ audioBufferRef = NoTrack
    /\ sourceNodeRef = 0
    /\ startTimeRef = 0
    /\ pauseTimeRef = 0
    /\ sources = <<>>
    /\ loads = {}
    /\ trackChanges = 0
    /\ now = 0

\* Every component but the active one rests.
Resting(active) ==
    /\ IF active = "wav" THEN TRUE ELSE WavOff
    /\ IF active = "render" THEN TRUE ELSE RenderOff
    /\ IF active = "chord" THEN TRUE ELSE ChordOff
    /\ IF active = "snippet" THEN TRUE ELSE SnipOff
    /\ IF active = "mix" THEN TRUE ELSE MixOff
    /\ IF active = "compose" THEN TRUE ELSE ComposeOff
    /\ IF active = "ui" THEN TRUE ELSE UiOff
    /\ IF active = "player" THEN TRUE ELSE PlayerOff

(***************************************************************************)
(* The codec as a state machine: one call per behaviour.                   *)
(***************************************************************************)
InitWav ==
    /\ Resting("wav")
    /\ wpc = "idle"
    /\ wav = <<>>
    /\ stores = <<>>
    /\ float32Data = <<>>
    /\ \/ /\ abuffer \in Buffers
          /\ pcmData = <<>>
          /\ pcmRate = DefaultSampleRate
       \/ /\ abuffer = NoBuffer
          /\ pcmData \in PcmInputs
          /\ pcmRate \in SampleRates

\* bufferToWav(abuffer)
CallBufferToWav ==
    /\ wpc = "idle"
    /\ abuffer # NoBuffer
    /\ LET r == BufferToWav(abuffer)
       IN  /\ wav' = r.view
           /\ stores' = r.stores
    /\ wpc' = "encoded"
    /\ UNCHANGED <<abuffer, pcmData, pcmRate, float32Data>>
    /\ UNCHANGED nonWavVars

\* createWavBlob(pcmData, sampleRate)
CallCreateWavBlob ==
    /\ wpc = "idle"
    /\ abuffer = NoBuffer
    /\ wav' = CreateWavBlob(pcmData, pcmRate)
    /\ wpc' = "blob"
    /\ UNCHANGED <<abuffer, pcmData, pcmRate, stores, float32Data>>
    /\ UNCHANGED nonWavVars

\* decodePCM(base64) on the bytes base64 stands for
CallDecodePCM ==
    /\ wpc = "idle"
    /\ abuffer = NoBuffer
    /\ float32Data' = DecodePCM(pcmData)
    /\ wpc' = "decoded"
    /\ UNCHANGED <<abuffer, pcmData, pcmRate, wav, stores>>
    /\ UNCHANGED nonWavVars

NextWav == CallBufferToWav \/ CallCreateWavBlob \/ CallDecodePCM

SpecWav == InitWav /\ [][NextWav]_vars

(***************************************************************************)
(* Claims about the codec, checked under SpecWav.                          *)
(***************************************************************************)

\* What a WAV reader finds at the byte offset of frame p, channel c.
SampleOffset(ab, p, c) == HeaderSize + 2 * (p * ab.numberOfChannels + c)

\* C1: after bufferToWav, for every frame p in 0..L-1 and channel c in 0..C-1 the
\* int16 at byte offset 44 + 2*(p*C + c) is the encoding of channels[c][p]: frames
\* are written in order from the first one, none skipped, none left unwritten.
C1_FramesInOrder ==
    wpc = "encoded" =>
        \A p \in 0..(abuffer.length - 1), c \in 0..(abuffer.numberOfChannels - 1) :
            GetI16(wav, SampleOffset(abuffer, p, c))
                = ScaleSample(Clamp(abuffer.channels[c][p]))

\* The conversion the specification states: clamp, then trunc(s * 32768) for every
\* s < 0 and trunc(s * 32767) for every s >= 0.
StatedScale(s) ==
    IF s < 0 THEN MulTruncDiv(s, NegScale, SampleDen)
             ELSE MulTruncDiv(s, PosScale, SampleDen)

\* C2: every int16 that the sample loop of bufferToWav stores is the stated
\* conversion of the sample it read: every negative sample, those in [-0.5, 0)
\* included, is scaled by 32768.
C2_NegativeScaledBy32768 ==
    \A k \in 1..Len(stores) :
        stores[k].value = StatedScale(Clamp(stores[k].raw))

\* A canonical 44-byte header for the given shape, as a WAV reader reads it.
WavHeaderIs(view, total, numChannels, rate, dataSize) ==
    /\ DOMAIN view = 0..(total - 1)
    /\ <<view[0], view[1], view[2], view[3]>> = TagBytes("RIFF")
    /\ GetU32(view, 4) = total - 8
    /\ <<view[8], view[9], view[10], view[11]>> = TagBytes("WAVE")
    /\ <<view[12], view[13], view[14], view[15]>> = TagBytes("fmt ")
    /\ GetU32(view, 16) = 16
    /\ GetU16(view, 20) = 1
    /\ GetU16(view, 22) = numChannels
    /\ GetU32(view, 24) = rate
    /\ GetU32(view, 28) = rate * 2 * numChannels
    /\ GetU16(view, 32) = 2 * numChannels
    /\ GetU16(view, 34) = 16
    /\ <<view[36], view[37], view[38], view[39]>> = TagBytes("data")
    /\ GetU32(view, 40) = dataSize

\* C3: bufferToWav produces exactly 44 + 2*L*C bytes with a consistent header
\* (RIFF size = length - 8, fmt length 16, PCM, C channels, rate R, byte rate
\* R*2*C, block align 2*C, 16 bits, data size 2*L*C); createWavBlob produces the
\* same layout for mono data, with data size the PCM byte count and RIFF size
\* 36 + data size.
C3_HeaderConsistent ==
    /\ wpc = "encoded" =>
         LET dataSize == 2 * abuffer.length * abuffer.numberOfChannels
         IN  /\ WavHeaderIs(wav, HeaderSize + dataSize, abuffer.numberOfChannels,
                            abuffer.sampleRate, dataSize)
             \* the same 44 bytes createWavBlob writes for mono data of that size
             /\ abuffer.numberOfChannels = 1 =>
                  LET blob == CreateWavBlob([i \in 1..dataSize |-> 0],
                                            abuffer.sampleRate)
                  IN  \A i \in 0..(HeaderSize - 1) : blob[i] = wav[i]
    /\ wpc = "blob" =>
         /\ WavHeaderIs(wav, HeaderSize + Len(pcmData), 1, pcmRate, Len(pcmData))
         /\ GetU32(wav, 4) = 36 + Len(pcmData)
         /\ \A i \in 1..Len(pcmData) : wav[HeaderSize + i - 1] = pcmData[i]

C3_Witness ==
    /\ wpc = "encoded"
    /\ abuffer.numberOfChannels = 2
    /\ abuffer.length > HeaderSize

\* Whether every sample of the buffer lies in [-1, 1].
InRange(ab) ==
    \A c \in 0..(ab.numberOfChannels - 1), p \in 0..(ab.length - 1) :
        Abs(ab.channels[c][p]) <= One

\* The WAV read back: the header's shape, and the data chunk through decodePCM,
\* de-interleaved by channel.
DecodeWav(view) ==
    LET numChannels == GetU16(view, 22)
        frames == GetU32(view, 40) \div (2 * numChannels)
        data == DecodePCM([i \in 1..GetU32(view, 40) |-> view[HeaderSize + i - 1]])
    IN  [numberOfChannels |-> numChannels,
         length |-> frames,
         sampleRate |-> GetU32(view, 24),
         channels |-> [c \in 0..(numChannels - 1) |->
                        [p \in 0..(frames - 1) |-> data[p * numChannels + c]]]]

\* C4: round trip.  Decoding the WAV bufferToWav produced (int16 / 32768 per
\* sample, de-interleaved by channel) gives, for every buffer with samples in
\* [-1, 1], the same channel count, rate and length, and every sample within
\* 1/32768 of the original at the same frame position.
C4_RoundTrip ==
    (wpc = "encoded" /\ InRange(abuffer)) =>
        LET back == DecodeWav(wav)
        IN  /\ back.numberOfChannels = abuffer.numberOfChannels
            /\ back.length = abuffer.length
            /\ back.sampleRate = abuffer.sampleRate
            /\ \A c \in 0..(abuffer.numberOfChannels - 1),
                  p \in 0..(abuffer.length - 1) :
                    Abs(back.channels[c][p] - abuffer.channels[c][p])
                        <= SampleDen \div NegScale

\* C24: every integer the sample loop of bufferToWav stores lies in
\* [-32768, 32767], for samples outside [-1, 1] too: such a sample is clamped
\* before scaling (to 32767 above 1, to -32768 below -1), and the two bytes
\* written read back as the integer stored, nothing wrapped.
C24_StoredInt16InRange ==
    \A k \in 1..Len(stores) :
        /\ stores[k].value >= -NegScale
        /\ stores[k].value <= PosScale
        /\ stores[k].raw > One => stores[k].value = PosScale
        /\ stores[k].raw < -One => stores[k].value = -NegScale
        /\ GetI16(wav, stores[k].at) = stores[k].value

C24_Witness ==
    /\ wpc = "encoded"
    /\ \E k \in 1..Len(stores) : stores[k].raw > One
    /\ \E k \in 1..Len(stores) : stores[k].raw < -One

\* The i-th little-endian two's-complement int16 of a byte sequence.
Int16At(bytes, i) ==
    LET u == bytes[2 * i + 1] + 256 * bytes[2 * i + 2]
    IN  IF u >= NegScale THEN u - 2 * NegScale ELSE u

\* C15: for 2N bytes of headerless little-endian int16 PCM, decodePCM returns
\* exactly N samples, sample i being int16_i / 32768 (numerator 2 * int16_i over
\* SampleDen), so every value lies in [-1, 1) and every byte pair, the first
\* included, yields a sample.
C15_DecodePcmExact ==
    wpc = "decoded" =>
        LET N == Len(pcmData) \div 2
        IN  /\ Len(pcmData) = 2 * N
            /\ DOMAIN float32Data = 0..(N - 1)
            /\ \A i \in 0..(N - 1) :
                    /\ float32Data[i] * (NegScale \div 2) = Int16At(pcmData, i) * NegScale
                    /\ -One <= float32Data[i]
                    /\ float32Data[i] < One

C15_Witness ==
    /\ wpc = "decoded"
    /\ Len(pcmData) = 2 * MaxPcmSamples
    /\ float32Data[0] = -One
    /\ float32Data[1] = 2 * PosScale
    /\ float32Data[2] = -2

(***************************************************************************)
(* processAudio (src/utils/audioHelpers.ts:347-460).                       *)
(*                                                                         *)
(* Gains are in dB, mix and the makeup gain in hundredths.  The Web Audio  *)
(* calls behave as the Web Audio API defines them: an OfflineAudioContext  *)
(* cannot be constructed with a length of zero (NotSupportedError), and an *)
(* AudioParam keeps a value inside its nominal range as given (the nominal *)
(* range of a biquad gain reaches far beyond every value used here).       *)
(***************************************************************************)
\* An optional field of the config: <<>> when missing, <<v>> when set to v.
Absent == <<>>
Some(v) == <<v>>
Opt(S) == {Absent} \cup {Some(v) : v \in S}

\* JavaScript's (x || 0) on an optional number: undefined and 0 give 0.
OrZero(x) == IF x = Absent THEN 0 ELSE x[1]

\* The context as getAudioSnippet constructs it (line 298): always mono.
MonoCtxFor(audioBuffer) ==
    [numberOfChannels |-> 1,
     length |-> audioBuffer.length,
     sampleRate |-> audioBuffer.sampleRate]

\* lines 356-360: new OfflineAudioContext(numberOfChannels, length, sampleRate).
OfflineCtxFor(audioBuffer) ==
    [numberOfChannels |-> audioBuffer.numberOfChannels,
     length |-> audioBuffer.length,
     sampleRate |-> audioBuffer.sampleRate]

\* The constructor throws NotSupportedError when an argument is zero.
CtxConstructible(audioBuffer) ==
    /\ audioBuffer.length > 0
    /\ audioBuffer.numberOfChannels > 0
    /\ audioBuffer.sampleRate > 0

\* The makeup gain had the test of line 409 been mix >= 0.5.
MakeupGainFromHalf(cfg) ==
    IF cfg.mix # Absent /\ cfg.mix[1] >= 50
    THEN 120 + (IF OrZero(cfg.lowGain) > 0 THEN -10 ELSE 0)
    ELSE 100

\* lines 407-412: the makeup gain, in hundredths (the gain AudioParam holds a
\* float32, in which 1.2 - 0.1 and 1.1 are the same number).
MakeupGain(cfg) ==
    IF cfg.mix # Absent /\ cfg.mix[1] # 0 /\ cfg.mix[1] > 50
    THEN 120 + (IF OrZero(cfg.lowGain) > 0 THEN -10 ELSE 0)
    ELSE 100

\* The wiring of the comment of line 366, with the spatial stage in the chain.
ConnectionsWithWidener ==
    { <<"source", "highPass">>, <<"highPass", "lowShelf">>,
      <<"lowShelf", "midPeaking">>, <<"midPeaking", "highShelf">>,
      <<"highShelf", "glueCompressor">>, <<"glueCompressor", "saturator">>,
      <<"saturator", "makeupGain">>, <<"makeupGain", "stereoWidener">>,
      <<"stereoWidener", "limiter">>, <<"limiter", "destination">> }

\* lines 432-443: the connections made.
Connections ==
    { <<"source", "highPass">>, <<"highPass", "lowShelf">>,
      <<"lowShelf", "midPeaking">>, <<"midPeaking", "highShelf">>,
      <<"highShelf", "glueCompressor">>, <<"glueCompressor", "saturator">>,
      <<"saturator", "makeupGain">>, <<"makeupGain", "limiter">>,
      <<"limiter", "destination">> }

\* lines 368-443: the nodes created, their parameters and the wiring.
BuildGraph(cfg) ==
    [built |-> TRUE,
     highPassFrequency |-> 30,
     lowShelfFrequency |-> 200,
     lowShelfGain |-> OrZero(cfg.lowGain),
     midPeakingFrequency |-> 1800,
     midPeakingQTenths |-> 8,
     midPeakingGain |-> OrZero(cfg.midGain),
     highShelfFrequency |-> 8000,
     highShelfGain |-> OrZero(cfg.highGain),
     saturatorCurve |-> IF cfg.saturation = Some(TRUE)
                        THEN "makeDistortionCurve(100)" ELSE "null",
     makeupGain |-> MakeupGain(cfg),
     nodes |-> {"source", "highPass", "lowShelf", "midPeaking", "highShelf",
                "glueCompressor", "saturator", "makeupGain", "stereoWidener",
                "limiter", "destination"},
     types |-> [n \in {"highPass", "lowShelf", "midPeaking", "highShelf"} |->
                  CASE n = "highPass" -> "highpass"
                    [] n = "lowShelf" -> "lowshelf"
                    [] n = "midPeaking" -> "peaking"
                    [] n = "highShelf" -> "highshelf"],
     edges |-> Connections]

\* line 452: Math.random() * 60 + 10 lies in [10, 70); three of its values.
TickValues == {10, 40, 69}

\* The inputs: what the file decodes to, and the config.  The decoded samples
\* are those of PatternBuffer from the file's phase on: phase 0 starts with a
\* silent frame, phase 7 with a sample of 0.5.
Files ==
    {[decodable |-> TRUE, length |-> l, numberOfChannels |-> c, sampleRate |-> r,
      phase |-> ph] :
        l \in 0..MaxRenderFrames, c \in 1..MaxChannels, r \in {DefaultSampleRate, 44100},
        ph \in {0, 7}}
    \cup {NoFile}

\* line 354: the AudioBuffer decodeAudioData resolves with.
DecodedBuffer(f) == PatternBuffer(f.numberOfChannels, f.length, f.sampleRate, f.phase)

\* The configs: every lowGain with every mix, and every combination of midGain,
\* highGain and saturation, the other fields missing.  The gains include values
\* outside the documented -24..+24.
Configs ==
    {[NoConfig EXCEPT !.lowGain = l, !.mix = m] :
        l \in Opt({-30, -24, 0, 10, 24, 30}), m \in Opt({0, 50, 90, 100})}
    \cup {[NoConfig EXCEPT !.midGain = g, !.highGain = h, !.saturation = d] :
        g \in Opt({-25, 3}), h \in Opt({5, 25}), d \in Opt(BOOLEAN)}
    \cup {[NoConfig EXCEPT !.lowGain = Some(0), !.midGain = Some(0),
                           !.highGain = Some(0), !.saturation = Some(FALSE)]}

InitRender ==
    /\ Resting("render")
    /\ rpc = "start"
    /\ file \in Files
    /\ config \in Configs
    /\ offlineCtx = NoCtx
    /\ graph = NoGraph
    /\ interval = FALSE
    /\ progressLog = <<>>
    /\ ticks = 0
    /\ resultWav = <<>>

\* line 352: await file.arrayBuffer() resolves; lines 353-354 create the
\* AudioContext and call decodeAudioData.
FileRead ==
    /\ rpc = "start"
    /\ rpc' = "decoding"
    /\ UNCHANGED <<file, config, offlineCtx, graph, interval, progressLog, ticks,
                   resultWav>>
    /\ UNCHANGED nonRenderVars

\* line 354: decodeAudioData rejects (bytes that are no audio, or audio without a
\* single frame); processAudio rejects with it.
DecodeRejected ==
    /\ rpc = "decoding"
    /\ \/ ~file.decodable
       \/ file.length = 0
    /\ rpc' = "rejected"
    /\ UNCHANGED <<file, config, offlineCtx, graph, interval, progressLog, ticks,
                   resultWav>>
    /\ UNCHANGED nonRenderVars

\* line 354 resolves with the decoded AudioBuffer; lines 356-453 run to the await
\* of line 455: the context is constructed (or the constructor throws and
\* processAudio rejects), the graph is built and started, the timer is set.
DecodeResolved ==
    /\ rpc = "decoding"
    /\ file.decodable
    /\ IF CtxConstructible(file)
       THEN /\ offlineCtx' = OfflineCtxFor(file)
            /\ graph' = BuildGraph(config)
            /\ interval' = TRUE
            /\ rpc' = "rendering"
       ELSE /\ rpc' = "rejected"
            /\ UNCHANGED <<offlineCtx, graph, interval>>
    /\ UNCHANGED <<file, config, progressLog, ticks, resultWav>>
    /\ UNCHANGED nonRenderVars

\* lines 451-453: the interval callback runs, onProgress(Math.random() * 60 + 10).
\* Nothing but clearInterval stops the timer.
TimerTick ==
    /\ interval
    /\ ticks < MaxTicks
    /\ \E v \in TickValues : progressLog' = Append(progressLog, v)
    /\ ticks' = ticks + 1
    /\ UNCHANGED <<rpc, file, config, offlineCtx, graph, interval, resultWav>>
    /\ UNCHANGED nonRenderVars

\* line 455 resolves with the rendered buffer, which has the shape of the
\* context and samples the graph produced; lines 456-459.
RenderResolved ==
    /\ rpc = "rendering"
    /\ \E phase \in {0, 8} :
         LET renderedBuffer ==
                 PatternBuffer(offlineCtx.numberOfChannels, offlineCtx.length,
                               offlineCtx.sampleRate, phase)
         IN  resultWav' = BufferToWav(renderedBuffer).view
    /\ interval' = FALSE
    /\ progressLog' = Append(progressLog, 100)
    /\ rpc' = "resolved"
    /\ UNCHANGED <<file, config, offlineCtx, graph, ticks>>
    /\ UNCHANGED nonRenderVars

\* line 455 rejects (the rendering failed): processAudio rejects there, lines
\* 456-459 do not run.
RenderRejected ==
    /\ rpc = "rendering"
    /\ rpc' = "rejected"
    /\ UNCHANGED <<file, config, offlineCtx, graph, interval, progressLog, ticks,
                   resultWav>>
    /\ UNCHANGED nonRenderVars

NextRender ==
    \/ FileRead
    \/ DecodeRejected
    \/ DecodeResolved
    \/ TimerTick
    \/ RenderResolved
    \/ RenderRejected

SpecRender == InitRender /\ [][NextRender]_vars

(***************************************************************************)
(* Claims about processAudio, checked under SpecRender.                    *)
(***************************************************************************)

\* C5: for every decodable input of L frames, C channels and rate R and every
\* config, processAudio renders into a context of exactly L frames, C channels
\* and rate R, and the WAV it returns describes L frames of C channels at rate R.
C5_LengthPreserved ==
    (rpc \in {"rendering", "resolved"} =>
        /\ offlineCtx.length = file.length
        /\ offlineCtx.numberOfChannels = file.numberOfChannels
        /\ offlineCtx.sampleRate = file.sampleRate)
    /\ (rpc = "resolved" =>
        LET dataSize == GetU32(resultWav, 40)
        IN  /\ WavHeaderIs(resultWav, HeaderSize + dataSize, file.numberOfChannels,
                           file.sampleRate, dataSize)
            /\ dataSize = file.length * GetU16(resultWav, 32))

C5_Witness ==
    /\ rpc = "resolved"
    /\ file.length = 2
    /\ file.numberOfChannels = 2
    /\ config.lowGain = Some(30)
    /\ Len(progressLog) > 1
    /\ GetU32(resultWav, 40) = 8

\* Whether a sequence of numbers never decreases.
NonDecreasing(q) == \A i \in 1..Len(q), j \in 1..Len(q) : i < j => q[i] <= q[j]

\* C6: during one processAudio call the values passed to the progress callback
\* never decrease, whatever number of timer ticks fire before rendering completes.
C6_ProgressMonotone ==
    rpc \in {"rendering", "resolved"} => NonDecreasing(progressLog)

\* C7: for every config, values outside the documented range included, the gains
\* applied to the low-shelf, peaking and high-shelf filters lie within
\* [-24, +24] dB.
C7_GainsClamped ==
    graph.built =>
        /\ graph.lowShelfGain >= -24 /\ graph.lowShelfGain <= 24
        /\ graph.midPeakingGain >= -24 /\ graph.midPeakingGain <= 24
        /\ graph.highShelfGain >= -24 /\ graph.highShelfGain <= 24

\* C8: when the input has zero frames, the remaster completes without raising and
\* returns an empty (zero-frame) result.
C8_EmptyInputResolves ==
    (file.decodable /\ file.length = 0 /\ rpc \in {"resolved", "rejected"}) =>
        /\ rpc = "resolved"
        /\ DOMAIN resultWav = 0..(HeaderSize - 1)
        /\ GetU32(resultWav, 40) = 0

\* C26: once a processAudio call has settled, resolved or rejected (a rejection
\* of the rendering included), its timer is cleared and the progress callback
\* is not invoked again; after a success the last value reported is 100.
C26_TimerStoppedWhenSettled ==
    /\ [](rpc \in {"resolved", "rejected"} => ~interval)
    /\ [](rpc = "resolved" => progressLog[Len(progressLog)] = 100)
    /\ [][(rpc \in {"resolved", "rejected"}) => (progressLog' = progressLog)]_vars

\* The energy of a buffer: the sum of its squared samples, each sample taken in
\* units of 1/64 (so that the sums stay within 32 bits).
RECURSIVE SumSquares(_, _)
SumSquares(ab, k) ==
    IF k = 0 THEN 0
    ELSE LET c == (k - 1) % ab.numberOfChannels
             p == (k - 1) \div ab.numberOfChannels
             q == Abs(ab.channels[c][p]) \div (SampleDen \div 64)
         IN  q * q + SumSquares(ab, k - 1)

Energy(ab) == SumSquares(ab, ab.numberOfChannels * ab.length)

IsBypass(cfg) ==
    /\ cfg.lowGain = Some(0)
    /\ cfg.midGain = Some(0)
    /\ cfg.highGain = Some(0)
    /\ cfg.saturation = Some(FALSE)

\* C18: with lowGain 0, midGain 0, highGain 0 and saturation false, the RMS
\* energy of what processAudio returns lies within 1% of the RMS energy of the
\* input (the sum of squares within 0.99^2 and 1.01^2 of the input's), for every
\* input buffer.
C18_BypassNearIdentity ==
    (rpc = "resolved" /\ IsBypass(config)) =>
        LET ein == Energy(DecodedBuffer(file))
            eout == Energy(DecodeWav(resultWav))
        IN  /\ 9801 * ein <= 10000 * eout
            /\ 10000 * eout <= 10201 * ein

\* The edges of the path through the given nodes, in order.
PathEdges(path) == {<<path[i], path[i + 1]>> : i \in 1..(Len(path) - 1)}

\* The nodes reachable from n along one edge or more.
RECURSIVE ReachableFrom(_, _, _)
ReachableFrom(edges, frontier, seen) ==
    LET next == {e[2] : e \in {d \in edges : d[1] \in frontier}} \ seen
    IN  IF next = {} THEN seen ELSE ReachableFrom(edges, next, seen \cup next)

RemasterChain ==
    <<"source", "highPass", "lowShelf", "midPeaking", "highShelf", "glueCompressor",
      "saturator", "makeupGain", "limiter", "destination">>

C20_MakeupGainValues ==
    graph.built =>
        /\ (config.mix = Absent \/ config.mix[1] <= 50) => graph.makeupGain = 100
        /\ (config.mix # Absent /\ config.mix[1] > 50 /\ OrZero(config.lowGain) <= 0)
              => graph.makeupGain = 120
        /\ (config.mix # Absent /\ config.mix[1] > 50 /\ OrZero(config.lowGain) > 0)
              => /\ graph.makeupGain = 110
                 /\ graph.makeupGain < MakeupGain([config EXCEPT !.lowGain = Some(0)])
        /\ graph.makeupGain \in {100, 110, 120}

C20_Witness ==
    /\ graph.built
    /\ config.mix = Some(90)
    /\ config.lowGain = Some(10)
    /\ graph.makeupGain = 110

(***************************************************************************)
(* getChordFrequencies (src/utils/audioHelpers.ts:464-480).                *)
(* Frequencies are in hundredths of a hertz.                               *)
(***************************************************************************)

\* lines 464-475: the own properties of CHORD_MAP.
ChordKeys == {"C", "Cm", "Dm", "Em", "F", "Fm", "G", "Am", "Bb", "Unknown"}

CHORD_MAP(key) ==
    CASE key = "C"       -> <<26163, 32963, 39200>>
      [] key = "Cm"      -> <<26163, 31113, 39200>>
      [] key = "Dm"      -> <<29366, 34923, 44000>>
      [] key = "Em"      -> <<32963, 39200, 49388>>
      [] key = "F"       -> <<34923, 44000, 52325>>
      [] key = "Fm"      -> <<34923, 41530, 52325>>
      [] key = "G"       -> <<39200, 49388, 58733>>
      [] key = "Am"      -> <<44000, 52325, 65925>>
      [] key = "Bb"      -> <<46616, 58733, 69846>>
      [] key = "Unknown" -> <<26163, 32963, 39200>>

\* CHORD_MAP is an object literal: a property read that finds no own property
\* goes on to Object.prototype, whose properties are functions (and __proto__,
\* the prototype object itself): truthy values that are no arrays.
ObjectPrototypeKeys ==
    {"constructor", "hasOwnProperty", "isPrototypeOf", "propertyIsEnumerable",
     "toLocaleString", "toString", "valueOf", "__proto__", "__defineGetter__",
     "__defineSetter__", "__lookupGetter__", "__lookupSetter__"}

\* CHORD_MAP[key]
PropertyRead(key) ==
    IF key \in ChordKeys THEN [kind |-> "triad", freqs |-> CHORD_MAP(key)]
    ELSE IF key \in ObjectPrototypeKeys THEN [kind |-> "inherited", name |-> key]
    ELSE [kind |-> "undefined"]

\* a || b
OrElse(a, b) == IF a.kind # "undefined" THEN a ELSE b

\* line 478: the alternatives of /maj7|7|sus4|dim/, in order.
Extensions == <<"maj7", "7", "sus4", "dim">>

\* The length of the first alternative matching s at position i, or 0.
MatchAt(s, i) ==
    LET fits(k) == /\ i + Len(Extensions[k]) - 1 <= Len(s)
                   /\ SubSeq(s, i, i + Len(Extensions[k]) - 1) = Extensions[k]
    IN  IF \E k \in 1..Len(Extensions) : fits(k)
        THEN Len(Extensions[CHOOSE k \in 1..Len(Extensions) :
                                fits(k) /\ \A j \in 1..(k - 1) : ~fits(j)])
        ELSE 0

\* line 478: chordName.replace(/maj7|7|sus4|dim/, ''): the leftmost match is
\* removed, once.
RECURSIVE ReplaceFrom(_, _)
ReplaceFrom(s, i) ==
    IF i > Len(s) THEN s
    ELSE IF MatchAt(s, i) > 0
         THEN SubSeq(s, 1, i - 1) \o SubSeq(s, i + MatchAt(s, i), Len(s))
         ELSE ReplaceFrom(s, i + 1)

StripExtension(name) == ReplaceFrom(name, 1)

\* root.substring(0, 2)
Substring02(root) == SubSeq(root, 1, Min(2, Len(root)))

\* lines 477-480
GetChordFrequencies(name) ==
    LET root == StripExtension(name)
    IN  OrElse(PropertyRead(root),
               OrElse(PropertyRead(Substring02(root)), PropertyRead("Unknown")))

\* The arguments: every string over ChordChars of up to MaxChordLen characters,
\* and chord symbols, other words and property names of greater length.
ChordChars == {"C", "D", "G", "A", "B", "m", "b", "7"}

RECURSIVE StringsUpTo(_)
StringsUpTo(n) ==
    IF n = 0 THEN {""}
    ELSE LET shorter == StringsUpTo(n - 1)
         IN  shorter \cup {q \o x : q \in shorter, x \in ChordChars}

NamedChords ==
    {"Cmaj7", "Fmaj7", "Gsus4", "Csus4", "Bdim", "Gdim", "Dm7", "Am7", "Cm7b5",
     "Gadd9", "Gsus2", "Fadd9", "G/B", "Am/G", "Bbmaj7", "F#m", "Ebm", "Unknown",
     "N.C.", "hello", "constructor", "toString", "valueOf", "__proto__",
     "hasOwnProperty"}

ChordNames == StringsUpTo(MaxChordLen) \cup NamedChords

InitChord ==
    /\ Resting("chord")
    /\ cpc = "call"
    /\ chordName \in ChordNames
    /\ chordResult = NoResult

CallGetChordFrequencies ==
    /\ cpc = "call"
    /\ chordResult' = GetChordFrequencies(chordName)
    /\ cpc' = "returned"
    /\ UNCHANGED chordName
    /\ UNCHANGED nonChordVars

NextChord == CallGetChordFrequencies

SpecChord == InitChord /\ [][NextChord]_vars

\* C9: for every string s, getChordFrequencies(s) returns a list of exactly 3
\* positive frequencies.
C9_ChordLookupTotal ==
    cpc = "returned" =>
        /\ chordResult.kind = "triad"
        /\ Len(chordResult.freqs) = 3
        /\ \A k \in 1..3 : chordResult.freqs[k] > 0

\* A key of the chord map that the symbol begins with: the root letter (C, F, G)
\* or the root with its quality (Cm, Am, Bb, ...).
IsPrefix(k, name) == Len(k) <= Len(name) /\ SubSeq(name, 1, Len(k)) = k
RootMatches(name) == {k \in ChordKeys : IsPrefix(k, name)}

\* C10: a symbol that (with its extension stripped) is not a key of the chord map
\* resolves to the triad of its root when the root is in the map (a symbol that
\* starts with G resolves to the G triad), and to the default C-major triad only
\* when no root match exists.  Stated in its weakest reading: any key the symbol
\* begins with counts as its root, and the symbols that name an inherited
\* property, which C9 is about, are left out.
C10_RootLetterFallback ==
    (/\ cpc = "returned"
     /\ StripExtension(chordName) \notin ChordKeys
     /\ StripExtension(chordName) \notin ObjectPrototypeKeys) =>
        LET matches == RootMatches(StripExtension(chordName))
        IN  IF matches # {}
            THEN \E k \in matches :
                    chordResult = [kind |-> "triad", freqs |-> CHORD_MAP(k)]
            ELSE chordResult = [kind |-> "triad", freqs |-> CHORD_MAP("Unknown")]

(***************************************************************************)
(* getAudioSnippet (src/utils/audioHelpers.ts:291-319).                    *)
(*                                                                         *)
(* durationSeconds is kept in milliseconds, so sampleRate * durationSeconds *)
(* is sampleRate * durationMs / 1000, a number that need not be whole.  The *)
(* length argument of OfflineAudioContext is an unsigned long: a fraction   *)
(* is dropped on the way in, and a length of zero makes the constructor    *)
(* throw NotSupportedError.                                                *)
(***************************************************************************)

\* line 297 and the conversion of line 298:
\* Math.min(audioBuffer.length, audioBuffer.sampleRate * durationSeconds).
SnippetLength(audioBuffer, ms) ==
    Min(audioBuffer.length, (audioBuffer.sampleRate * ms) \div 1000)

\* line 298: new OfflineAudioContext(1, length, audioBuffer.sampleRate).
SnippetCtxFor(audioBuffer, ms) ==
    [numberOfChannels |-> 1,
     length |-> SnippetLength(audioBuffer, ms),
     sampleRate |-> audioBuffer.sampleRate]

\* lines 300-305: the source plays the decoded buffer from frame 0 into the
\* mono destination, which mixes a stereo input down to (left + right) / 2 (kept
\* on the sample grid) and renders the first ctx.length frames.
RenderSnippet(audioBuffer, ctx) ==
    [numberOfChannels |-> ctx.numberOfChannels,
     length |-> ctx.length,
     sampleRate |-> ctx.sampleRate,
     channels |-> [c \in 0..(ctx.numberOfChannels - 1) |->
                    [p \in 0..(ctx.length - 1) |->
                        IF audioBuffer.numberOfChannels = 1
                        THEN audioBuffer.channels[0][p]
                        ELSE LET sum == audioBuffer.channels[0][p]
                                        + audioBuffer.channels[1][p]
                             IN  IF sum < 0 THEN -((-sum) \div 2) ELSE sum \div 2]]]

\* durationSeconds: 0, 1 ms, 2 ms and the default of 15 s.
SnippetDurations == {0, 1, 2, 15000}

SnippetFiles ==
    {[decodable |-> TRUE, length |-> l, numberOfChannels |-> c, sampleRate |-> r,
      phase |-> ph] :
        l \in 1..MaxFrames, c \in 1..MaxChannels, r \in SampleRates, ph \in {7}}
    \cup {NoFile}

InitSnippet ==
    /\ Resting("snippet")
    /\ spc = "start"
    /\ snipFile \in SnippetFiles
    /\ durationMs \in SnippetDurations
    /\ snipCtx = NoCtx
    /\ snipWav = <<>>

\* line 292 resolves; lines 293-294 call decodeAudioData.
SnipFileRead ==
    /\ spc = "start"
    /\ spc' = "decoding"
    /\ UNCHANGED <<snipFile, durationMs, snipCtx, snipWav>>
    /\ UNCHANGED nonSnipVars

\* line 294 rejects: the bytes are no audio.
SnipDecodeRejected ==
    /\ spc = "decoding"
    /\ ~snipFile.decodable
    /\ spc' = "rejected"
    /\ UNCHANGED <<snipFile, durationMs, snipCtx, snipWav>>
    /\ UNCHANGED nonSnipVars

\* line 294 resolves; lines 297-305 run to the await: the context is constructed
\* (or the constructor throws and getAudioSnippet rejects) and rendering starts.
SnipDecodeResolved ==
    /\ spc = "decoding"
    /\ snipFile.decodable
    /\ LET ctx == SnippetCtxFor(DecodedBuffer(snipFile), durationMs)
       IN  IF CtxConstructible(ctx)
           THEN /\ snipCtx' = ctx
                /\ spc' = "rendering"
           ELSE /\ spc' = "rejected"
                /\ UNCHANGED snipCtx
    /\ UNCHANGED <<snipFile, durationMs, snipWav>>
    /\ UNCHANGED nonSnipVars

\* line 305 resolves; line 308 encodes the rendered buffer; lines 310-318 start
\* reading the Blob.
SnipRenderResolved ==
    /\ spc = "rendering"
    /\ snipWav' = BufferToWav(RenderSnippet(DecodedBuffer(snipFile), snipCtx)).view
    /\ spc' = "reading"
    /\ UNCHANGED <<snipFile, durationMs, snipCtx>>
    /\ UNCHANGED nonSnipVars

\* line 305 rejects (the rendering failed).
SnipRenderRejected ==
    /\ spc = "rendering"
    /\ spc' = "rejected"
    /\ UNCHANGED <<snipFile, durationMs, snipCtx, snipWav>>
    /\ UNCHANGED nonSnipVars

\* lines 312-315: onloadend resolves with the base64 text of the WAV bytes.
SnipReadEnd ==
    /\ spc = "reading"
    /\ spc' = "resolved"
    /\ UNCHANGED <<snipFile, durationMs, snipCtx, snipWav>>
    /\ UNCHANGED nonSnipVars

NextSnippet ==
    \/ SnipFileRead
    \/ SnipDecodeRejected
    \/ SnipDecodeResolved
    \/ SnipRenderResolved
    \/ SnipRenderRejected
    \/ SnipReadEnd

SpecSnippet == InitSnippet /\ [][NextSnippet]_vars

(***************************************************************************)
(* Claims about getAudioSnippet, checked under SpecSnippet.                *)
(***************************************************************************)

\* The frames the snippet's WAV holds, by its header.
SnippetFrames == GetU32(snipWav, 40) \div GetU16(snipWav, 32)

\* C13: for every input buffer with C channels, the snippet has C channels.
C13_SnippetKeepsChannels ==
    spc = "resolved" =>
        /\ snipCtx.numberOfChannels = snipFile.numberOfChannels
        /\ GetU16(snipWav, 22) = snipFile.numberOfChannels

\* C14: for every input buffer of L frames at rate R and every maxSeconds, the
\* call yields a snippet of exactly min(L, maxSeconds * R) frames: never more
\* than the input has, never more than maxSeconds of them.
C14_SnippetLength ==
    (snipFile.decodable /\ spc \in {"rendering", "reading", "resolved", "rejected"}) =>
        /\ snipCtx # NoCtx
        /\ 1000 * snipCtx.length = Min(1000 * snipFile.length,
                                       snipFile.sampleRate * durationMs)
        /\ spc = "resolved" => SnippetFrames = snipCtx.length

(***************************************************************************)
(* mixAudioTracks (src/utils/audioHelpers.ts:621-664).                     *)
(*                                                                         *)
(* BaseAudioContext.createBuffer throws NotSupportedError when asked for a *)
(* buffer of zero frames.  An AudioBufferSourceNode plays its buffer once  *)
(* from the time given to start() unless its loop attribute is set.        *)
(***************************************************************************)

\* lines 624-628: new OfflineAudioContext(2, Math.max(vocalPcm.length,
\* backingTrackBuffer.length), 24000).
MixCtxFor(vocalLength, track) ==
    [numberOfChannels |-> 2,
     length |-> Max(vocalLength, track.length),
     sampleRate |-> DefaultSampleRate]

\* lines 631-646: the vocal source, through the compressor and a gain of 1.1.
VocalSource(vocalLength) ==
    [name |-> "vocalSource", channels |-> 1, length |-> vocalLength,
     starts |-> <<0>>, loop |-> FALSE,
     path |-> <<"vocalSource", "vocalComp", "vocalGain", "destination">>,
     gain |-> 110]

\* lines 649-657: the track source, through a gain of 0.85.
BackingSource(track) ==
    [name |-> "backingSource", channels |-> track.numberOfChannels,
     length |-> track.length,
     starts |-> <<0>>, loop |-> FALSE,
     path |-> <<"backingSource", "backingGain", "destination">>,
     gain |-> 85]

\* Whether the source feeds frame p of the output: a start at frame t plays the
\* buffer over t..t+length-1, again and again when looping.
Feeds(src, p) ==
    \E i \in 1..Len(src.starts) :
        /\ src.starts[i] <= p
        /\ src.length > 0
        /\ src.loop \/ p < src.starts[i] + src.length

MaxBackingFrames == 4

BackingTracks ==
    {[numberOfChannels |-> c, length |-> l, sampleRate |-> DefaultSampleRate] :
        c \in 1..MaxChannels, l \in 1..MaxBackingFrames}

InitMix ==
    /\ Resting("mix")
    /\ mpc = "call"
    /\ vocalBytes \in PcmInputs
    /\ backingTrackBuffer \in BackingTracks
    /\ mixCtx = NoCtx
    /\ mixSources = {}
    /\ mixWav = <<>>

\* lines 622-659, to the await: decode, construct the context, create the vocal
\* buffer (createBuffer throws on zero frames and mixAudioTracks rejects, the
\* context already constructed), set up and start both sources, start rendering.
CallMixAudioTracks ==
    /\ mpc = "call"
    /\ LET vocalPcm == DecodePCM(vocalBytes)
           vocalLength == Cardinality(DOMAIN vocalPcm)
       IN  /\ mixCtx' = MixCtxFor(vocalLength, backingTrackBuffer)
           /\ IF vocalLength = 0
              THEN /\ mpc' = "rejected"
                   /\ UNCHANGED mixSources
              ELSE /\ mixSources' = {VocalSource(vocalLength),
                                     BackingSource(backingTrackBuffer)}
                   /\ mpc' = "rendering"
    /\ UNCHANGED <<vocalBytes, backingTrackBuffer, mixWav>>
    /\ UNCHANGED nonMixVars

\* line 659 resolves with the rendered buffer, which has the shape of the
\* context: a frame no source feeds is silent, the others hold what the graph
\* produced; line 661 encodes it.
MixRenderResolved ==
    /\ mpc = "rendering"
    /\ \E phase \in {0, 8} :
         LET pattern == PatternBuffer(mixCtx.numberOfChannels, mixCtx.length,
                                      mixCtx.sampleRate, phase)
             renderedBuffer ==
                 [pattern EXCEPT !.channels =
                     [c \in 0..(mixCtx.numberOfChannels - 1) |->
                         [q \in 0..(mixCtx.length - 1) |->
                             IF \E src \in mixSources : Feeds(src, q)
                             THEN pattern.channels[c][q] ELSE 0]]]
         IN  mixWav' = BufferToWav(renderedBuffer).view
    /\ mpc' = "resolved"
    /\ UNCHANGED <<vocalBytes, backingTrackBuffer, mixCtx, mixSources>>
    /\ UNCHANGED nonMixVars

\* line 659 rejects (the rendering failed).
MixRenderRejected ==
    /\ mpc = "rendering"
    /\ mpc' = "rejected"
    /\ UNCHANGED <<vocalBytes, backingTrackBuffer, mixCtx, mixSources, mixWav>>
    /\ UNCHANGED nonMixVars

NextMix == CallMixAudioTracks \/ MixRenderResolved \/ MixRenderRejected

SpecMix == InitMix /\ [][NextMix]_vars

(***************************************************************************)
(* Claims about mixAudioTracks, checked under SpecMix.                     *)
(***************************************************************************)

\* C12: for every vocal of Lv samples and backing buffer of Lb frames at 24 kHz,
\* mixAudioTracks renders into a stereo context of exactly max(Lv, Lb) frames,
\* with the vocal and the backing source each started once, at time 0, and not
\* looped, so that from the end of the shorter source on only the longer one
\* feeds the output; the WAV it resolves with holds max(Lv, Lb) stereo frames.
C12_MixLength ==
    LET Lv == Len(vocalBytes) \div 2
        Lb == backingTrackBuffer.length
    IN  /\ mpc \in {"rendering", "resolved", "rejected"} =>
              /\ mixCtx = [numberOfChannels |-> 2, length |-> Max(Lv, Lb),
                           sampleRate |-> DefaultSampleRate]
              /\ {src.name : src \in mixSources} = {"vocalSource", "backingSource"}
              /\ \A src \in mixSources :
                    /\ src.starts = <<0>>
                    /\ ~src.loop
                    /\ src.length = IF src.name = "vocalSource" THEN Lv ELSE Lb
                    /\ \A q \in 0..(Max(Lv, Lb) - 1) : Feeds(src, q) <=> q < src.length
        /\ mpc = "resolved" =>
              /\ GetU16(mixWav, 22) = 2
              /\ GetU32(mixWav, 24) = DefaultSampleRate
              /\ GetU32(mixWav, 40) = 4 * Max(Lv, Lb)

(***************************************************************************)
(* generateProceduralBackingTrack (src/utils/audioHelpers.ts:498-619).     *)
(*                                                                         *)
(* Both for loops add a fixed interval to time: after k additions time is  *)
(* k * unit / bpm seconds, with unit 60 (one beat), 30 (half a beat) or    *)
(* 240 (four beats).  The model keeps k.  60 / bpm is Infinity for bpm 0   *)
(* and negative for a negative bpm.  The sums are IEEE doubles: when       *)
(* 60 / bpm is no binary fraction the sum after k additions is off the     *)
(* exact k * unit / bpm by a rounding error, so that a comparison with an  *)
(* exactly equal bound, and a remainder that would be exactly 0, can go    *)
(* either way.  An AudioParam automation call and start()/stop() throw     *)
(* RangeError for a negative time and TypeError for a non-finite one.      *)
(***************************************************************************)

\* String.prototype.includes
Includes(str, sub) ==
    \E i \in 1..(Len(str) - Len(sub) + 1) : SubSeq(str, i, i + Len(sub) - 1) = sub

RECURSIVE OddPart(_)
OddPart(n) == IF n % 2 = 0 THEN OddPart(n \div 2) ELSE n

\* Whether 60 / b, and with it every multiple of it met here, is a double
\* without rounding: b is 15, 30, 60, 120, 240, ... or a divisor of 15 times a
\* power of two.
TempoExact(b) == b # 0 /\ 15 % OddPart(Abs(b)) = 0

\* line 525: the beats are halved for genres naming Metal or Drum.
KickUnit(g) == IF Includes(g, "Metal") \/ Includes(g, "Drum") THEN 30 ELSE 60

\* line 508: a chord lasts four beats.
ChordUnit == 240

\* lines 527 and 568: whether time < totalDuration can hold, and can fail,
\* after k additions.
MayContinue(k, unit, b, T) ==
    IF b > 0 THEN \/ k * unit < T * b
                  \/ k * unit = T * b /\ ~TempoExact(b)
    ELSE IF b = 0 THEN k = 0
    ELSE TRUE

MayStop(k, unit, b, T) ==
    IF b > 0 THEN k * unit >= T * b
    ELSE IF b = 0 THEN k > 0
    ELSE FALSE

\* Whether time is negative after k additions.
TimeNegative(k, b) == b < 0 /\ k > 0

\* line 542: the outcomes time % secondsPerBeat === 0 || time % (secondsPerBeat / 2)
\* === 0 can have after k additions: 0, the interval itself and twice the
\* interval are exact, as is every sum of an exact tempo. With 60 / 220 and
\* 60 / 500 (and their halves) the sums of doubles are multiples of the
\* interval up to the eighth addition and of none after it.
HatOutcomes(k, b) ==
    IF b = 0 \/ TempoExact(b) \/ k <= 2 THEN {TRUE}
    ELSE IF b \in {220, 500} THEN {k <= 8}
    ELSE BOOLEAN

\* A progression that is played once and then holds its last chord.
ChordAtHeld(progression, idx) ==
    IF Len(progression) = 0 THEN "C"
    ELSE progression[Min(idx, Len(progression) - 1) + 1]

\* line 569: chordProgression[chordIndex % chordProgression.length] || 'C'
\* (the index is NaN for an empty progression, the element undefined).
ChordAt(progression, idx) ==
    IF Len(progression) = 0 THEN "C"
    ELSE LET name == progression[(idx % Len(progression)) + 1]
         IN  IF name = "" THEN "C" ELSE name

\* lines 576-587: oscillator type and voice gain (hundredths), lines 579 and 605:
\* detune (cents) and pan (hundredths) of voice idx.
VoiceType(g) ==
    IF Includes(g, "Synthwave") THEN "sawtooth"
    ELSE IF Includes(g, "Lo-Fi") THEN "sine" ELSE "triangle"

VoiceGain(g) ==
    IF Includes(g, "Synthwave") THEN 8
    ELSE IF Includes(g, "Lo-Fi") THEN 12 ELSE 10

VoiceDetune(g, idx) ==
    IF Includes(g, "Synthwave") THEN (IF idx = 1 THEN 5 ELSE -5) ELSE 0

VoicePan(idx) == IF idx % 2 = 0 THEN -40 ELSE 40

\* Times are counted in units of 1 / (10 * bpm) seconds, b > 0: a chord window
\* lasts 2400 units, a second 10 * b units.
WindowStart(k) == k * 10 * ChordUnit

\* lines 590-593 and 612-613: the envelope breakpoints of the window k: the
\* gain is 0 at start, reaches the voice gain at start + 0.2, holds it until
\* start + chordDuration - 0.5 and is 0 at start + chordDuration, where the
\* oscillator stops.
Envelope(k, b) ==
    [start   |-> WindowStart(k),
     attack  |-> WindowStart(k) + 2 * b,
     sustain |-> WindowStart(k) + 10 * ChordUnit - 5 * b,
     stop    |-> WindowStart(k) + 10 * ChordUnit]

\* lines 572-614, what throws while the voices of the chord window k are set
\* up: forEach on a value that is no array, an automation time that is not
\* finite (line 592, bpm 0) or negative (lines 590-592: time + chordDuration -
\* 0.5 is below 0 when (k + 1) * 240 / bpm < 0.5).
HarmonyError(freqs, k, b) ==
    IF freqs.kind # "triad" THEN "TypeError"
    ELSE IF b = 0 THEN "TypeError"
    ELSE IF b < 0 \/ 480 * (k + 1) < b THEN "RangeError"
    ELSE "none"

MaxLoopSteps == 1400

Genres == {"Lo-Fi", "Synthwave", "Dark Ambient", "Heavy Metal", "Pop"}

Progressions == {<<>>, <<"C", "G", "Am", "F">>, <<"Am7", "constructor">>}

\* The calls: the tempos and durations of the composer's contract, and tempos
\* outside 60..220 with a duration of one second.
ComposeInputs ==
    {[bpm |-> b, totalDuration |-> T] : b \in {60, 120, 220}, T \in {1, 30, 180}}
    \cup {[bpm |-> b, totalDuration |-> 1] : b \in {-60, 0, 500}}

InitCompose ==
    /\ Resting("compose")
    /\ gpc = "call"
    /\ \E in \in ComposeInputs : bpm = in.bpm /\ totalDuration = in.totalDuration
    /\ chordProgression \in Progressions
    /\ genre \in Genres
    /\ composeCtx = NoCtx
    /\ loopStep = 0
    /\ chordIndex = 0
    /\ scheduled = NothingScheduled
    /\ composeError = "none"
    /\ backing = NoCtx

\* lines 504-527: the context, the master and reverb buses, the loop variable.
ComposeSetup ==
    /\ gpc = "call"
    /\ composeCtx' = [numberOfChannels |-> 2,
                      length |-> DefaultSampleRate * totalDuration,
                      sampleRate |-> DefaultSampleRate]
    /\ gpc' = "rhythm"
    /\ loopStep' = 0
    /\ UNCHANGED <<bpm, chordProgression, genre, totalDuration, chordIndex, scheduled,
                   composeError, backing>>
    /\ UNCHANGED nonComposeVars

\* lines 527-564: one iteration of the drum loop.
RhythmStep ==
    /\ gpc = "rhythm"
    /\ loopStep < MaxLoopSteps
    /\ MayContinue(loopStep, KickUnit(genre), bpm, totalDuration)
    /\ IF ~Includes(genre, "Ambient") /\ TimeNegative(loopStep, bpm)
       THEN \* line 531 throws
            /\ gpc' = "rejected"
            /\ composeError' = "RangeError"
            /\ UNCHANGED <<loopStep, scheduled>>
       ELSE /\ \E hat \in HatOutcomes(loopStep, bpm) :
                 scheduled' = [kind |-> "rhythm", step |-> loopStep,
                               kick |-> ~Includes(genre, "Ambient"),
                               hat |-> hat /\ ~Includes(genre, "Ambient")]
            /\ loopStep' = loopStep + 1
            /\ UNCHANGED <<gpc, composeError>>
    /\ UNCHANGED <<bpm, chordProgression, genre, totalDuration, composeCtx, chordIndex,
                   backing>>
    /\ UNCHANGED nonComposeVars

\* line 527 finds time >= totalDuration; lines 567-568.
RhythmEnd ==
    /\ gpc = "rhythm"
    /\ MayStop(loopStep, KickUnit(genre), bpm, totalDuration)
    /\ gpc' = "harmony"
    /\ loopStep' = 0
    /\ chordIndex' = 0
    /\ UNCHANGED <<bpm, chordProgression, genre, totalDuration, composeCtx, scheduled,
                   composeError, backing>>
    /\ UNCHANGED nonComposeVars

\* lines 568-616: one iteration of the harmony loop.
HarmonyStep ==
    /\ gpc = "harmony"
    /\ loopStep < MaxLoopSteps
    /\ MayContinue(loopStep, ChordUnit, bpm, totalDuration)
    /\ LET name == ChordAt(chordProgression, chordIndex)
           freqs == GetChordFrequencies(name)
           error == HarmonyError(freqs, loopStep, bpm)
       IN  IF error # "none"
           THEN /\ gpc' = "rejected"
                /\ composeError' = error
                /\ UNCHANGED <<loopStep, chordIndex, scheduled>>
           ELSE /\ scheduled' =
                        [kind |-> "harmony", step |-> loopStep, chord |-> name,
                         freqs |-> freqs.freqs,
                         envelope |-> Envelope(loopStep, bpm),
                         type |-> VoiceType(genre),
                         gain |-> VoiceGain(genre),
                         detune |-> [idx \in 0..(Len(freqs.freqs) - 1) |->
                                        VoiceDetune(genre, idx)],
                         pan |-> [idx \in 0..(Len(freqs.freqs) - 1) |-> VoicePan(idx)]]
                /\ chordIndex' = chordIndex + 1
                /\ loopStep' = loopStep + 1
                /\ UNCHANGED <<gpc, composeError>>
    /\ UNCHANGED <<bpm, chordProgression, genre, totalDuration, composeCtx, backing>>
    /\ UNCHANGED nonComposeVars

\* line 568 finds time >= totalDuration; line 618 starts the rendering.
HarmonyEnd ==
    /\ gpc = "harmony"
    /\ MayStop(loopStep, ChordUnit, bpm, totalDuration)
    /\ gpc' = "rendering"
    /\ UNCHANGED <<bpm, chordProgression, genre, totalDuration, composeCtx, loopStep,
                   chordIndex, scheduled, composeError, backing>>
    /\ UNCHANGED nonComposeVars

\* line 618 resolves with a buffer of the shape of the context.
ComposeResolved ==
    /\ gpc = "rendering"
    /\ backing' = composeCtx
    /\ gpc' = "resolved"
    /\ UNCHANGED <<bpm, chordProgression, genre, totalDuration, composeCtx, loopStep,
                   chordIndex, scheduled, composeError>>
    /\ UNCHANGED nonComposeVars

\* line 618 rejects (the rendering failed).
ComposeRenderRejected ==
    /\ gpc = "rendering"
    /\ gpc' = "rejected"
    /\ composeError' = "rendering"
    /\ UNCHANGED <<bpm, chordProgression, genre, totalDuration, composeCtx, loopStep,
                   chordIndex, scheduled, backing>>
    /\ UNCHANGED nonComposeVars

NextCompose ==
    \/ ComposeSetup
    \/ RhythmStep
    \/ RhythmEnd
    \/ HarmonyStep
    \/ HarmonyEnd
    \/ ComposeResolved
    \/ ComposeRenderRejected

SpecCompose == InitCompose /\ [][NextCompose]_vars

(***************************************************************************)
(* Claims about generateProceduralBackingTrack, checked under SpecCompose. *)
(***************************************************************************)

\* C11: for every bpm in {60, 120, 220}, every chord progression and genre and
\* every T in {1, 30, 180}, the call renders a 2-channel buffer at 24000 Hz of
\* exactly T * 24000 frames: nothing thrown while scheduling keeps it from
\* rendering, and the shape depends on T alone.
C11_BackingLength ==
    (bpm \in {60, 120, 220} /\ totalDuration \in {1, 30, 180}) =>
        /\ composeError \notin {"TypeError", "RangeError"}
        /\ gpc \notin {"off", "call"} =>
              composeCtx = [numberOfChannels |-> 2,
                            length |-> totalDuration * 24000,
                            sampleRate |-> 24000]
        /\ gpc = "resolved" =>
              backing = [numberOfChannels |-> 2,
                         length |-> totalDuration * 24000,
                         sampleRate |-> 24000]

\* C21: with a progression of n > 0 chords the k-th chord window uses
\* chordProgression[k mod n] (its voices are the triad of that chord, and a
\* call rejected in a window was rejected for that chord), so a progression
\* shorter than the arrangement repeats in order from its first chord; with an
\* empty progression every window uses the chord "C".
C21_ProgressionCycles ==
    LET n == Len(chordProgression)
    IN  /\ (gpc \in {"harmony", "rendering", "resolved"} /\ scheduled.kind = "harmony") =>
              /\ chordIndex = loopStep
              /\ scheduled.step = loopStep - 1
              /\ n > 0 => /\ scheduled.chord = chordProgression[(scheduled.step % n) + 1]
                          /\ scheduled.freqs =
                                 GetChordFrequencies(
                                     chordProgression[(scheduled.step % n) + 1]).freqs
              /\ n = 0 => /\ scheduled.chord = "C"
                          /\ scheduled.freqs = CHORD_MAP("C")
        /\ (composeError = "TypeError" /\ bpm # 0) =>
              /\ n > 0
              /\ GetChordFrequencies(chordProgression[(loopStep % n) + 1]).kind # "triad"

\* The fifth window of a four-chord progression plays its first chord again.
C21_Witness ==
    /\ gpc = "harmony"
    /\ scheduled.kind = "harmony"
    /\ Len(chordProgression) = 4
    /\ scheduled.step = 4
    /\ scheduled.chord = chordProgression[1]

\* C22: for a genre naming Ambient no rhythm step schedules a kick or a hi-hat
\* and the harmony voices are scheduled all the same; for every other genre
\* every rhythm step schedules a kick and a hi-hat.
C22_PercussionByGenre ==
    /\ scheduled.kind = "rhythm" =>
          IF Includes(genre, "Ambient")
          THEN ~scheduled.kick /\ ~scheduled.hat
          ELSE scheduled.kick /\ scheduled.hat
    /\ (Includes(genre, "Ambient") /\ gpc \in {"rendering", "resolved"}) =>
          /\ scheduled.kind = "harmony"
          /\ Len(scheduled.freqs) = 3

\* C23: for every bpm in 60..220 and every T > 0 the chord windows tile [0, T):
\* no call is rejected while its windows are scheduled, window k spans
\* [k * d, (k + 1) * d) with d = 240 / bpm, a window starts where the one before
\* it stops, the first starts at 0 and the last is the one holding T's last
\* instant, each window has 3 voices, and its envelope breakpoints are
\* strictly ordered: start < start + 0.2 < end - 0.5 < end.
C23_WindowsTile ==
    /\ [](bpm \in 60..220 => composeError \notin {"TypeError", "RangeError"})
    /\ []((bpm \in 60..220 /\ scheduled.kind = "harmony") =>
            /\ scheduled.envelope.start = scheduled.step * 2400
            /\ scheduled.envelope.stop = (scheduled.step + 1) * 2400
            /\ scheduled.envelope.start < scheduled.envelope.attack
            /\ scheduled.envelope.attack < scheduled.envelope.sustain
            /\ scheduled.envelope.sustain < scheduled.envelope.stop
            /\ Len(scheduled.freqs) = 3
            /\ scheduled.envelope.start <= totalDuration * 10 * bpm
            /\ gpc \in {"rendering", "resolved"} =>
                  scheduled.envelope.stop >= totalDuration * 10 * bpm)
    /\ [][(bpm \in 60..220 /\ HarmonyStep /\ gpc' = "harmony") =>
              IF scheduled.kind = "harmony"
              THEN scheduled'.envelope.start = scheduled.envelope.stop
              ELSE scheduled'.envelope.start = 0]_vars

\* A tempo clamped into 60..220.
ClampedTempo(b) == Max(60, Min(220, b))

\* The iterations a loop adding unit / b to time makes at most before time
\* reaches T (one more when rounding keeps the last sum below T).
StepsWithin(unit, b, T) == ((T * b + unit - 1) \div unit) + 1

\* C17: for every bpm, zero, negative and above 220 included, and every positive
\* total duration the call is not rejected for its tempo (a TypeError comes from
\* a chord name only) and its loops run as with a tempo clamped into 60..220:
\* each loop ends within the iterations the clamped tempo needs.
C17_TerminatesClamped ==
    /\ composeError # "RangeError"
    /\ composeError = "TypeError" =>
          GetChordFrequencies(ChordAt(chordProgression, chordIndex)).kind # "triad"
    /\ gpc = "rhythm" =>
          loopStep <= StepsWithin(KickUnit(genre), ClampedTempo(bpm), totalDuration)
    /\ gpc = "harmony" =>
          loopStep <= StepsWithin(ChordUnit, ClampedTempo(bpm), totalDuration)

(***************************************************************************)
(* The RemasterTrack component (src/components/RemasterTrack.tsx:149-383): *)
(* its file, processing and result states and the renders it has started.  *)
(* A handler runs with the states of the latest rendering of the           *)
(* component; the callback triggerRender hands to setTimeout keeps the     *)
(* file of the rendering it was created in.  processAudio is one call that *)
(* resolves or rejects (its steps are those of SpecRender).                *)
(***************************************************************************)
MaxUiFiles == 2
MaxUiRenders == 3

InFlight == {r.id : r \in uiRenders}

\* lines 272-281: the saturation of the presets' configs.
PresetConfigs == {[saturation |-> sat] : sat \in BOOLEAN}

\* lines 343-345 as called from line 642: commitManualChanges is the function
\* of the render in which the Drive control was clicked, and the eqSettings it
\* passes to triggerRender is that render's, whatever setEqSettings did since.
CommitConfig(rendered, toggled) == rendered

\* lines 293-305: triggerRender(config) with the file its closure holds.
\* (origin and settings record the control that was used and the settings its
\* handler set.)
Triggered(f, passed, origin, settings) ==
    /\ uiRequested' = uiRequested + 1
    /\ uiRenders' = uiRenders \cup
                       {[id |-> uiRequested + 1, file |-> f, config |-> passed,
                         origin |-> origin, settings |-> settings,
                         stage |-> "timer"]}
    /\ uiProcessing' = TRUE

InitUi ==
    /\ Resting("ui")
    /\ upc = "mounted"
    /\ uiFile = NoUiFile
    /\ uiProcessing = FALSE
    /\ uiResultBlob = NoBlob
    /\ uiResultUrl = NoBlob
    /\ uiRenders = {}
    /\ uiEqSettings = DefaultSettings
    /\ uiCommits = <<>>
    /\ uiAnalyses = 0
    /\ uiRequested = 0
    /\ uiCancelled = {}

\* lines 228-248: a file is selected in the upload area, which is shown while
\* file is null (line 434); the settings are reset and runAnalysis is started.
HandleFileChange ==
    /\ upc = "mounted"
    /\ uiFile = NoUiFile
    /\ uiAnalyses < MaxUiFiles
    /\ \E f \in 1..MaxUiFiles : uiFile' = f
    /\ uiResultBlob' = NoBlob
    /\ uiResultUrl' = NoBlob
    /\ uiEqSettings' = DefaultSettings
    /\ uiAnalyses' = uiAnalyses + 1
    /\ uiCancelled' = uiCancelled \cup InFlight
    /\ UNCHANGED <<upc, uiProcessing, uiRenders, uiCommits, uiRequested>>
    /\ UNCHANGED nonUiVars

\* lines 250-270: runAnalysis settles: with a suggested preset it applies it
\* with autoRender false (line 261), which sets the settings and starts no
\* render; without one, or when the analysis failed, the settings stay.
AnalysisSettles ==
    /\ upc = "mounted"
    /\ uiAnalyses > 0
    /\ uiAnalyses' = uiAnalyses - 1
    /\ \/ \E preset \in PresetConfigs : uiEqSettings' = preset
       \/ UNCHANGED uiEqSettings
    /\ UNCHANGED <<upc, uiFile, uiProcessing, uiResultBlob, uiResultUrl, uiRenders,
                   uiCommits, uiRequested, uiCancelled>>
    /\ UNCHANGED nonUiVars

\* lines 283-305: a preset is clicked (handleApplyPreset): the settings become
\* the preset's and triggerRender sets processing and arms the 100 ms timer.
\* The presets are shown while file is set, whether a render is in progress
\* or not.
TriggerRender ==
    /\ upc = "mounted"
    /\ uiFile # NoUiFile
    /\ uiRequested + Len(uiCommits) < MaxUiRenders
    /\ \E preset \in PresetConfigs :
         /\ uiEqSettings' = preset
         /\ Triggered(uiFile, preset, "preset", preset)
    /\ UNCHANGED <<upc, uiFile, uiResultBlob, uiResultUrl, uiCommits, uiAnalyses,
                   uiCancelled>>
    /\ UNCHANGED nonUiVars

\* lines 638-643: the Drive control is clicked (the console takes no clicks
\* while file is null or processing is set, line 613): the saturation is
\* toggled and the commitManualChanges of this render is armed for 100 ms.
ToggleDrive ==
    /\ upc = "mounted"
    /\ uiFile # NoUiFile
    /\ ~uiProcessing
    /\ uiRequested + Len(uiCommits) < MaxUiRenders
    /\ LET newVal == [saturation |-> ~uiEqSettings.saturation]
       IN  /\ uiEqSettings' = newVal
           /\ uiCommits' = Append(uiCommits,
                                  [file |-> uiFile,
                                   config |-> CommitConfig(uiEqSettings, newVal),
                                   toggled |-> newVal])
    /\ UNCHANGED <<upc, uiFile, uiProcessing, uiResultBlob, uiResultUrl, uiRenders,
                   uiAnalyses, uiRequested, uiCancelled>>
    /\ UNCHANGED nonUiVars

\* line 642, 100 ms later: commitManualChanges calls triggerRender.
CommitFires ==
    /\ upc = "mounted"
    /\ uiCommits # <<>>
    /\ uiCommits' = Tail(uiCommits)
    /\ Triggered(Head(uiCommits).file, Head(uiCommits).config, "drive",
                 Head(uiCommits).toggled)
    /\ UNCHANGED <<upc, uiFile, uiResultBlob, uiResultUrl, uiEqSettings, uiAnalyses,
                   uiCancelled>>
    /\ UNCHANGED nonUiVars

\* lines 305-307: the timer fires and processAudio(file, config, ...) is called
\* with the file and the config triggerRender saw.
RenderTimerFires ==
    /\ upc = "mounted"
    /\ \E r \in uiRenders :
         /\ r.stage = "timer"
         /\ uiRenders' = (uiRenders \ {r}) \cup {[r EXCEPT !.stage = "running"]}
    /\ UNCHANGED <<upc, uiFile, uiProcessing, uiResultBlob, uiResultUrl, uiEqSettings,
                   uiCommits, uiAnalyses, uiRequested, uiCancelled>>
    /\ UNCHANGED nonUiVars

\* lines 307-316: processAudio resolves; the blob and its object URL become the
\* result and processing ends.
RenderInstalls ==
    /\ upc = "mounted"
    /\ \E r \in uiRenders :
         /\ r.stage = "running"
         /\ uiRenders' = uiRenders \ {r}
         /\ uiResultBlob' = [render |-> r.id, file |-> r.file]
         /\ uiResultUrl' = [render |-> r.id, file |-> r.file]
    /\ uiProcessing' = FALSE
    /\ UNCHANGED <<upc, uiFile, uiEqSettings, uiCommits, uiAnalyses, uiRequested,
                   uiCancelled>>
    /\ UNCHANGED nonUiVars

\* lines 327-331: processAudio rejects; processing ends, an error toast shows.
RenderFails ==
    /\ upc = "mounted"
    /\ \E r \in uiRenders :
         /\ r.stage = "running"
         /\ uiRenders' = uiRenders \ {r}
    /\ uiProcessing' = FALSE
    /\ UNCHANGED <<upc, uiFile, uiResultBlob, uiResultUrl, uiEqSettings, uiCommits,
                   uiAnalyses, uiRequested, uiCancelled>>
    /\ UNCHANGED nonUiVars

\* lines 376-383: Reset Project, shown while file is set (line 418).  It clears
\* file and resultUrl and resets the settings; resultBlob, processing, the
\* timers and the renders in progress are left as they are.
HandleReset ==
    /\ upc = "mounted"
    /\ uiFile # NoUiFile
    /\ uiFile' = NoUiFile
    /\ uiResultUrl' = NoBlob
    /\ uiEqSettings' = DefaultSettings
    /\ uiCancelled' = uiCancelled \cup InFlight
    /\ UNCHANGED <<upc, uiProcessing, uiResultBlob, uiRenders, uiCommits, uiAnalyses,
                   uiRequested>>
    /\ UNCHANGED nonUiVars

NextUi ==
    \/ HandleFileChange
    \/ AnalysisSettles
    \/ TriggerRender
    \/ ToggleDrive
    \/ CommitFires
    \/ RenderTimerFires
    \/ RenderInstalls
    \/ RenderFails
    \/ HandleReset

SpecUi == InitUi /\ [][NextUi]_vars

(***************************************************************************)
(* Claims about the component, checked under SpecUi.                       *)
(***************************************************************************)

\* C16: a render that was in flight when Reset Project was clicked or a new file
\* was selected never delivers output: its blob is not installed as the result
\* (neither as resultBlob nor as the resultUrl the player and the download use).
C16_CancelledNeverInstalled ==
    /\ uiResultBlob.render \notin uiCancelled
    /\ uiResultUrl.render \notin uiCancelled

\* C25: when renders are triggered in succession for a file, processing stays
\* true until the last render in flight has settled, and results are installed
\* in the order of the requests, so that after all have settled the installed
\* result is the output of the most recently requested render.
C25_LatestRenderWins ==
    /\ [](uiRenders # {} => uiProcessing)
    /\ [][(uiResultBlob' # uiResultBlob /\ uiResultBlob' # NoBlob) =>
              (uiResultBlob'.render > uiResultBlob.render)]_vars

\* C30: the render the Drive control's delayed commit triggers has the
\* saturation the toggle set: the config passed to processAudio equals the
\* settings after the toggle, not the settings captured before it.
C30_DriveCommitsNewValue ==
    \A r \in uiRenders :
        r.origin = "drive" => r.config.saturation = r.settings.saturation

(***************************************************************************)
(* useAudioPlayer (src/hooks/useAudioPlayer.ts).  Times are whole ticks of *)
(* the context's clock.  The tracks 1..MaxTracks - 1 have an audioUrl that *)
(* is fetched and decoded; the track MaxTracks has none.  Every track      *)
(* lasts TrackLength ticks, in its metadata and in its decoded buffer.     *)
(***************************************************************************)
MaxTracks == 3
MaxTrackChanges == 2
MaxSources == 3
MaxClock == 2
TrackLength == 2

Tracks == 1..MaxTracks

HasAudioUrl(t) == t \in Tracks /\ t < MaxTracks

\* source.stop() on the node at index node, at time at (no node: nothing).
Stopped(srcs, node, at) ==
    IF node = 0 \/ srcs[node].stopped THEN srcs
    ELSE [srcs EXCEPT ![node].stopped = TRUE, ![node].stoppedAt = at]

\* A playAudio that leaves the previous source alone.
KeepPrevious(srcs, node, at) == srcs

\* lines 155-158: playAudio stops and disconnects the previous source.
StopPrevious(srcs, node, at) == Stopped(srcs, node, at)

\* lines 142-170: playAudio(offset) with audioBufferRef.current = buf.
PlayAudio(offset, buf) ==
    IF buf = NoTrack
    THEN /\ isPlaying' = TRUE
         /\ UNCHANGED <<sources, sourceNodeRef, startTimeRef>>
    ELSE /\ sources' = Append(StopPrevious(sources, sourceNodeRef, now),
                              [buffer |-> buf, offset |-> offset, startedAt |-> now,
                               stopped |-> FALSE, stoppedAt |-> 0])
         /\ sourceNodeRef' = Len(sources) + 1
         /\ startTimeRef' = now
         /\ isPlaying' = TRUE

InitPlayer ==
    /\ Resting("player")
    /\ ypc = "mounted"
    /\ currentTrack = NoTrack
    /\ isPlaying = FALSE
    /\ duration = 0
    /\ currentTime = 0
    /\ audioBufferRef = NoTrack
    /\ sourceNodeRef = 0
    /\ startTimeRef = 0
    /\ pauseTimeRef = 0
    /\ sources = <<>>
    /\ loads = {}
    /\ trackChanges = 0
    /\ now = 0

\* lines 56-99: currentTrack changes to t: the cleanup of the effect and
\* loadAudio both call stopAudio (lines 45-54); the duration is set from the
\* track; a track with an audioUrl is fetched, one without sets isPlaying.
ChangeTrack ==
    /\ ypc = "mounted"
    /\ trackChanges < MaxTrackChanges
    /\ trackChanges' = trackChanges + 1
    /\ \E t \in Tracks \ {currentTrack} :
         /\ currentTrack' = t
         /\ IF HasAudioUrl(t)
            THEN /\ loads' = loads \cup {[id |-> trackChanges + 1, track |-> t]}
                 /\ isPlaying' = FALSE
            ELSE /\ isPlaying' = TRUE
                 /\ UNCHANGED loads
    /\ sources' = Stopped(sources, sourceNodeRef, now)
    /\ pauseTimeRef' = 0
    /\ currentTime' = 0
    /\ duration' = TrackLength
    /\ UNCHANGED <<ypc, audioBufferRef, sourceNodeRef, startTimeRef, now>>
    /\ UNCHANGED nonPlayerVars

\* lines 69-84: the fetch and the decoding of a loadAudio call are done: the
\* buffer is kept, the duration set and playAudio(0) called.
LoadResolves ==
    /\ ypc = "mounted"
    /\ Len(sources) < MaxSources
    /\ \E l \in loads :
         /\ loads' = loads \ {l}
         /\ audioBufferRef' = l.track
         /\ PlayAudio(0, l.track)
    /\ duration' = TrackLength
    /\ UNCHANGED <<ypc, currentTrack, currentTime, pauseTimeRef, trackChanges, now>>
    /\ UNCHANGED nonPlayerVars

\* lines 85-87: the fetch or the decoding failed; the error is logged.
LoadRejects ==
    /\ ypc = "mounted"
    /\ \E l \in loads : loads' = loads \ {l}
    /\ UNCHANGED <<ypc, currentTrack, isPlaying, duration, currentTime, audioBufferRef,
                   sourceNodeRef, startTimeRef, pauseTimeRef, sources, trackChanges, now>>
    /\ UNCHANGED nonPlayerVars

\* lines 172-188: togglePlay: pauseAudio while playing, playAudio(pauseTime)
\* otherwise.
TogglePlay ==
    /\ ypc = "mounted"
    /\ currentTrack # NoTrack
    /\ IF isPlaying
       THEN /\ isPlaying' = FALSE
            /\ sources' = Stopped(sources, sourceNodeRef, now)
            /\ pauseTimeRef' = IF sourceNodeRef # 0
                               THEN pauseTimeRef + (now - startTimeRef)
                               ELSE pauseTimeRef
            /\ UNCHANGED <<sourceNodeRef, startTimeRef>>
       ELSE /\ Len(sources) < MaxSources
            /\ PlayAudio(pauseTimeRef, audioBufferRef)
            /\ UNCHANGED pauseTimeRef
    /\ UNCHANGED <<ypc, currentTrack, duration, currentTime, audioBufferRef, loads,
                   trackChanges, now>>
    /\ UNCHANGED nonPlayerVars

\* lines 101-140: a frame of the playback loop, which runs while isPlaying.
UpdateUI ==
    /\ ypc = "mounted"
    /\ isPlaying
    /\ IF HasAudioUrl(currentTrack)
       THEN LET elapsed == now - startTimeRef + pauseTimeRef
            IN  IF elapsed >= duration
                THEN \* lines 110-114: the end; stopAudio
                     /\ isPlaying' = FALSE
                     /\ currentTime' = 0
                     /\ pauseTimeRef' = 0
                     /\ sources' = Stopped(sources, sourceNodeRef, now)
                ELSE /\ currentTime' = elapsed
                     /\ UNCHANGED <<isPlaying, pauseTimeRef, sources>>
       ELSE \* lines 120-131: the simulation of a track without audio
            /\ IF currentTime + 1 >= TrackLength
               THEN isPlaying' = FALSE /\ currentTime' = 0
               ELSE currentTime' = currentTime + 1 /\ UNCHANGED isPlaying
            /\ UNCHANGED <<pauseTimeRef, sources>>
    /\ UNCHANGED <<ypc, currentTrack, duration, audioBufferRef, sourceNodeRef,
                   startTimeRef, loads, trackChanges, now>>
    /\ UNCHANGED nonPlayerVars

\* The clock of the audio context advances.
ClockTick ==
    /\ ypc = "mounted"
    /\ now < MaxClock
    /\ now' = now + 1
    /\ UNCHANGED <<ypc, currentTrack, isPlaying, duration, currentTime, audioBufferRef,
                   sourceNodeRef, startTimeRef, pauseTimeRef, sources, loads,
                   trackChanges>>
    /\ UNCHANGED nonPlayerVars

NextPlayer ==
    \/ ChangeTrack
    \/ LoadResolves
    \/ LoadRejects
    \/ TogglePlay
    \/ UpdateUI
    \/ ClockTick

SpecPlayer == InitPlayer /\ [][NextPlayer]_vars

(***************************************************************************)
(* Claims about the player, checked under SpecPlayer.                      *)
(***************************************************************************)

\* The source nodes that were started and not stopped.
Sounding == {i \in 1..Len(sources) : ~sources[i].stopped}

\* C27: after currentTrack changed from A to B while A's audio was being
\* loaded, A's audio is never started: a load that completes for a track that
\* is no longer selected neither replaces the loaded buffer nor starts a
\* source, and every source that sounds plays the selected track's buffer.
C27_StaleLoadDiscarded ==
    /\ [](\A i \in Sounding : sources[i].buffer = currentTrack)
    /\ [][\A l \in loads :
            (l \notin loads' /\ l.track # currentTrack) =>
                (audioBufferRef' = audioBufferRef /\ sources' = sources)]_vars

\* C28: at most one buffer source node is started and not stopped.
C28_OneSourceSounding == Cardinality(Sounding) <= 1

\* A second source was started while the first was sounding.
C28_Witness ==
    /\ Len(sources) >= 2
    /\ ~sources[Len(sources)].stopped
    /\ sources[Len(sources) - 1].stoppedAt = sources[Len(sources)].startedAt
    /\ sources[Len(sources) - 1].stopped

\* The position in its buffer of the source at index i, sounding at time t.
Position(i, t) == sources[i].offset + (t - sources[i].startedAt)

\* C29: for a track with audio: while a source sounds, the elapsed time
\* now - startTime + pauseTime is its position in the buffer (so a resumed
\* source starts at the total time played before); after a pause the
\* accumulated time is the position the source was stopped at; and a track
\* change to a track with audio and the end of the track leave the
\* accumulated time 0 and isPlaying false.
C29_ElapsedIsPosition ==
    /\ []((HasAudioUrl(currentTrack) /\ isPlaying /\ sourceNodeRef \in Sounding) =>
            now - startTimeRef + pauseTimeRef = Position(sourceNodeRef, now))
    /\ []((HasAudioUrl(currentTrack) /\ ~isPlaying /\ pauseTimeRef # 0) =>
            /\ sourceNodeRef # 0
            /\ pauseTimeRef = Position(sourceNodeRef, sources[sourceNodeRef].stoppedAt))
    /\ [][(currentTrack' # currentTrack /\ HasAudioUrl(currentTrack')) =>
              (pauseTimeRef' = 0 /\ ~isPlaying')]_vars
    /\ [][(UpdateUI /\ HasAudioUrl(currentTrack)
             /\ now - startTimeRef + pauseTimeRef >= duration) =>
              (pauseTimeRef' = 0 /\ ~isPlaying')]_vars

(***************************************************************************)
(* The engine as a whole: any one of its operations is called.             *)
(***************************************************************************)
Init ==
    \/ InitWav \/ InitRender \/ InitChord \/ InitSnippet \/ InitMix \/ InitCompose
    \/ InitUi \/ InitPlayer

Next ==
    \/ NextWav \/ NextRender \/ NextChord \/ NextSnippet \/ NextMix \/ NextCompose
    \/ NextUi \/ NextPlayer

Spec == Init /\ [][Next]_vars

====
